---- MODULE Spec2Model ----
(***************************************************************************)
(* A model of the exhaustive-map crate: the Finite bijection between the   *)
(* values of a finite type and 0..INHABITANTS, as implemented for the      *)
(* primitive types, tuples, arrays and derived structs and enums, the      *)
(* iter_all enumeration, and the array-backed ExhaustiveMap.               *)
(*                                                                         *)
(* usize is modelled with UsizeBits bits.  Type-level numbers (typenum)    *)
(* are exact naturals.                                                     *)
(***************************************************************************)
EXTENDS Integers, Sequences, FiniteSets, TLC

VARIABLES
    ty,               \* the key type K under consideration (a type descriptor)
    implemented,      \* whether impl Finite for K is accepted by the compiler
    overflow_checks,  \* the build: TRUE panics on usize overflow, FALSE wraps
    op,               \* the last operation that ran
    arg,              \* its argument
    result,           \* its result
    it,               \* the IterAll iterator: the underlying Range and what it yielded
    map,              \* the ExhaustiveMap<K, V>: its backing array and the kind of V
    calls             \* the arguments the closure passed to op was called with, in order

vars == <<ty, implemented, overflow_checks, op, arg, result, it, map, calls>>

---------------------------------------------------------------------------
(* Bounds of the model *)

\* width of usize in bits
UsizeBits == 21
\* from_usize is tried on 0..SmallIdx and near INHABITANTS, powers of two and usize::MAX
SmallIdx == 520
\* distance kept around INHABITANTS and usize::MAX
Near == 3
\* iter_all is run to completion for types with at most MaxIter inhabitants
MaxIter == 520
\* map values are 0..MaxVal
MaxVal == 1
\* map key types have at most MaxKeys inhabitants
MaxKeys == 3
\* width in bits of the u32 of the model, narrower than usize as u32 is on a
\* 64-bit target: 2^(2^U32Bits) exceeds usize::MAX
U32Bits == 5

RECURSIVE Pow(_, _)
\* typenum's Pow: exact b^e, with 0^0 = 1
Pow(b, e) == IF e = 0 THEN 1 ELSE b * Pow(b, e - 1)

USIZE_MAX == Pow(2, UsizeBits) - 1

Min(a, b) == IF a < b THEN a ELSE b

---------------------------------------------------------------------------
(* Option<T> and a panic, as results of the modelled functions *)

Some(v) == [tag |-> "Some", val |-> v]
None == [tag |-> "None"]
Panic(why) == [tag |-> "Panic", why |-> why]

\* usize::checked_add
checked_add(a, b) == IF a + b > USIZE_MAX THEN None ELSE Some(a + b)

\* a + b on usize: panics with overflow checks, wraps without
usize_add(a, b) ==
    IF a + b > USIZE_MAX
    THEN IF overflow_checks THEN Panic("attempt to add with overflow")
         ELSE Some((a + b) % (USIZE_MAX + 1))
    ELSE Some(a + b)

\* usize::checked_sub
checked_sub(a, b) == IF a < b THEN None ELSE Some(a - b)

---------------------------------------------------------------------------
(* Type descriptors *)

PhantomData == [kind |-> "phantom"]
Bool == [kind |-> "bool"]
UPrim(b) == [kind |-> "uprim", bits |-> b]
IPrim(b) == [kind |-> "iprim", bits |-> b]
NonZeroU(b) == [kind |-> "unonzero", bits |-> b]
NonZeroI(b) == [kind |-> "inonzero", bits |-> b]
Char == [kind |-> "char"]
Tuple(ts) == [kind |-> "tuple", fields |-> ts]
Array(t, n) == [kind |-> "array", elem |-> t, len |-> n]
\* a derived struct: its fields in declaration order
Struct(ts) == [kind |-> "struct", fields |-> ts]
\* a derived enum: its variants in declaration order, each a sequence of fields
Enum(vs) == [kind |-> "enum", variants |-> vs]
InRange(a, b) == [kind |-> "in_range", A |-> a, B |-> b]
InRangeInclusive(a, b) == [kind |-> "in_range_inclusive", A |-> a, B |-> b]
\* Box<T>, Rc<T>, Arc<T>, Cow<T>
Deref(t) == [kind |-> "deref", inner |-> t]

U8 == UPrim(8)
U16 == UPrim(16)
I8 == IPrim(8)
I16 == IPrim(16)
NonZeroUsize == NonZeroU(UsizeBits)
NonZeroIsize == NonZeroI(UsizeBits)
Unit == Tuple(<<>>)
Infallible == Enum(<<>>)
Ordering == Enum(<< <<>>, <<>>, <<>> >>)
Option(t) == Enum(<< <<>>, <<t>> >>)
Result(t, e) == Enum(<< <<t>>, <<e>> >>)

---------------------------------------------------------------------------
(* INHABITANTS: the type-level cardinality *)

RECURSIVE Reverse(_)
Reverse(s) == IF s = <<>> THEN <<>> ELSE Append(Reverse(Tail(s)), Head(s))

RECURSIVE sum_fold(_, _)
sum_fold(value, rest) ==
    IF rest = <<>> THEN value ELSE sum_fold(value + Head(rest), Tail(rest))

\* the macro crate's sum: U0 for no terms, else the first term plus each further one
sum(ns) == IF ns = <<>> THEN 0 ELSE sum_fold(Head(ns), Tail(ns))

RECURSIVE prod_fold(_, _)
prod_fold(value, rest) ==
    IF rest = <<>> THEN value ELSE prod_fold(value * Head(rest), Tail(rest))

\* a prod that answers U0 for no factors
prod_empty_zero(ns) == IF ns = <<>> THEN 0 ELSE prod_fold(Head(ns), Tail(ns))

\* the macro crate's prod: U1 for no factors, else the first factor times each further one
prod(ns) == IF ns = <<>> THEN 1 ELSE prod_fold(Head(ns), Tail(ns))

CHAR_GAP_START == 55296
CHAR_GAP_END == 57343
CHAR_GAP_SIZE == CHAR_GAP_END - CHAR_GAP_START + 1
CHAR_MAX == 1114111
CHAR_INHABITANTS == 1112064

RECURSIVE INHABITANTS(_)
RECURSIVE fields_inhabitants(_)

\* finite_impls_for_fields: the INHABITANTS of each field, in declaration order
fields_inhabitants(ts) ==
    IF ts = <<>> THEN <<>>
    ELSE <<INHABITANTS(Head(ts))>> \o fields_inhabitants(Tail(ts))

\* finite_impl_for_fields: the fields' INHABITANTS reversed, then multiplied
finite_impl_for_fields_inhabitants(ts) == prod(Reverse(fields_inhabitants(ts)))

RECURSIVE variants_inhabitants(_)
\* the INHABITANTS of each variant of an enum, in declaration order
variants_inhabitants(vs) ==
    IF vs = <<>> THEN <<>>
    ELSE <<finite_impl_for_fields_inhabitants(Head(vs))>> \o variants_inhabitants(Tail(vs))

\* __impl_tuples: type INHABITANTS = T0::INHABITANTS * T1::INHABITANTS * ...
tuple_inhabitants(T) == prod(fields_inhabitants(T.fields))

\* p * b, kept at usize::MAX + 1 when it exceeds usize::MAX: a type-level number
\* above usize::MAX fails FitsInUsize whatever it is
typenum_pow_step(b, p) == IF b > 0 /\ p > USIZE_MAX \div b THEN USIZE_MAX + 1 ELSE p * b

RECURSIVE typenum_pow(_, _, _)
\* <T::INHABITANTS as Pow<N>>::Output: p * b^e on type-level numbers, 0^0 = 1; the
\* exponent is the type-level N itself, and a power past usize::MAX stays there
typenum_pow(b, e, p) ==
    IF e = 0 \/ p > USIZE_MAX THEN p ELSE typenum_pow(b, e - 1, typenum_pow_step(b, p))

\* an array cardinality whose exponent is first cast to u32
array_inhabitants_as_u32(T) ==
    typenum_pow(INHABITANTS(T.elem), T.len % Pow(2, U32Bits), 1)

\* [T; N] and GenericArray<T, N>: type INHABITANTS = T::INHABITANTS ^ N
array_inhabitants(T) == typenum_pow(INHABITANTS(T.elem), T.len, 1)

\* finite_impl, Data::Enum: the sum of the variants' INHABITANTS
enum_inhabitants(T) == sum(variants_inhabitants(T.variants))

INHABITANTS(T) ==
    CASE T.kind = "phantom" -> 1
      [] T.kind = "bool" -> 2
      [] T.kind = "uprim" -> (Pow(2, T.bits) - 1) + 1
      [] T.kind = "iprim" -> INHABITANTS(UPrim(T.bits))
      [] T.kind = "unonzero" -> Pow(2, T.bits) - 1
      [] T.kind = "inonzero" -> Pow(2, T.bits) - 1
      [] T.kind = "char" -> CHAR_INHABITANTS
      [] T.kind = "tuple" -> tuple_inhabitants(T)
      [] T.kind = "array" -> array_inhabitants(T)
      [] T.kind = "struct" -> finite_impl_for_fields_inhabitants(T.fields)
      [] T.kind = "enum" -> enum_inhabitants(T)
      [] T.kind = "in_range" -> T.B - T.A
      [] T.kind = "in_range_inclusive" -> (T.B - T.A) + 1
      [] T.kind = "deref" -> INHABITANTS(T.inner)

\* the FitsInUsize bound on INHABITANTS
FitsInUsize(n) == n <= USIZE_MAX

\* a where clause that leaves out the FitsInUsize bound
where_clause_unbounded(T) == TRUE

\* the where clause of the generated impl: INHABITANTS: ArrayLength + FitsInUsize
where_clause(T) == FitsInUsize(INHABITANTS(T))

RECURSIVE Implemented(_)
RECURSIVE AllImplemented(_)
AllImplemented(ts) ==
    IF ts = <<>> THEN TRUE ELSE Implemented(Head(ts)) /\ AllImplemented(Tail(ts))

RECURSIVE AllVariantsImplemented(_)
AllVariantsImplemented(vs) ==
    IF vs = <<>> THEN TRUE
    ELSE AllImplemented(Head(vs)) /\ AllVariantsImplemented(Tail(vs))

\* whether impl Finite for T compiles: every field type is Finite and the
\* bounds on INHABITANTS hold
Implemented(T) ==
    /\ CASE T.kind \in {"tuple", "struct"} -> AllImplemented(T.fields)
         [] T.kind = "array" -> Implemented(T.elem)
         [] T.kind = "enum" -> AllVariantsImplemented(T.variants)
         [] T.kind = "deref" -> Implemented(T.inner)
         [] T.kind \in {"in_range", "in_range_inclusive"} -> T.A <= T.B
         [] OTHER -> TRUE
    /\ where_clause(T)

---------------------------------------------------------------------------
(* usize arithmetic and integer casts *)

\* the result of a function that returns a plain value when it does not panic
Ok(v) == [tag |-> "Ok", val |-> v]

\* a * b on usize: panics with overflow checks, wraps without
usize_mul(a, b) ==
    IF a * b > USIZE_MAX
    THEN IF overflow_checks THEN Panic("attempt to multiply with overflow")
         ELSE Some((a * b) % (USIZE_MAX + 1))
    ELSE Some(a * b)

\* v as usize for an unsigned v: zero extension, truncating to the width of usize
as_usize(v) == v % (USIZE_MAX + 1)

\* v as uN for a signed N-bit v: the same bit pattern read as unsigned
as_unsigned(v, bits) == IF v < 0 THEN v + Pow(2, bits) ELSE v

\* u as iN for an unsigned N-bit u: the same bit pattern read as signed
as_signed(u, bits) == IF u >= Pow(2, bits - 1) THEN u - Pow(2, bits) ELSE u

\* uN::try_from(i) for a usize i
try_into(i, bits) == IF i <= Pow(2, bits) - 1 THEN Some(i) ELSE None

\* usize::try_from(v) for an unsigned v
usize_try_from(v) == IF v <= USIZE_MAX THEN Some(v) ELSE None

\* u32::try_from(i) for a usize i
try_into_u32(i) == IF (i \div 65536) \div 65536 = 0 THEN Some(i) ELSE None

\* char::from_u32
char_from_u32(x) ==
    IF (x >= CHAR_GAP_START /\ x <= CHAR_GAP_END) \/ x > CHAR_MAX THEN None
    ELSE Some([n |-> x])

---------------------------------------------------------------------------
(* Values.  A bool is [b |-> TRUE or FALSE], an integer, char or range value *)
(* [n |-> its number], PhantomData [p |-> 0], a tuple, struct or array       *)
(* [t |-> the sequence of its fields or elements], an enum value             *)
(* [variant |-> j, fields |-> the sequence of the variant's fields], a box   *)
(* [inner |-> the boxed value].                                              *)

BoolVal(x) == [b |-> x]
IntVal(x) == [n |-> x]
PhantomVal == [p |-> 0]
ProductVal(xs) == [t |-> xs]
EnumVal(j, xs) == [variant |-> j, fields |-> xs]
BoxVal(x) == [inner |-> x]

---------------------------------------------------------------------------
(* to_usize *)

RECURSIVE to_usize(_, _)

phantom_to_usize(v) == Ok(0)

bool_to_usize(v) == Ok(IF v.b THEN 1 ELSE 0)

uprim_to_usize(T, v) == Ok(as_usize(v.n))

iprim_to_usize(T, v) == uprim_to_usize(UPrim(T.bits), IntVal(as_unsigned(v.n, T.bits)))

unonzero_to_usize(T, v) ==
    LET u == usize_try_from(v.n)
    IN  IF u.tag = "None" THEN Panic("called Result::unwrap() on an Err value")
        ELSE Ok(u.val - 1)

inonzero_to_usize(T, v) ==
    LET u == usize_try_from(as_unsigned(v.n, T.bits))
    IN  IF u.tag = "None" THEN Panic("called Result::unwrap() on an Err value")
        ELSE Ok(u.val - 1)

char_to_usize(v) == Ok(IF v.n > CHAR_GAP_END THEN v.n - CHAR_GAP_SIZE ELSE v.n)

\* a step that adds before it multiplies: res += field.to_usize(); res *= n
add_mul(res, n, field) ==
    IF field.tag = "Panic" THEN field
    ELSE LET a == usize_add(res, field.val)
         IN  IF a.tag = "Panic" THEN a
             ELSE LET m == usize_mul(a.val, n)
                  IN  IF m.tag = "Panic" THEN m ELSE Ok(m.val)

\* one step of a product encoding: res *= n; res += field.to_usize()
mul_add(res, n, field) ==
    LET m == usize_mul(res, n)
    IN  IF m.tag = "Panic" THEN m
        ELSE IF field.tag = "Panic" THEN field
        ELSE LET a == usize_add(m.val, field.val)
             IN  IF a.tag = "Panic" THEN a ELSE Ok(a.val)

RECURSIVE tuple_to_usize_from(_, _, _, _)
\* the rest of the tuple's fields after a step that gave r
tuple_to_usize_rest(T, v, k, r) ==
    IF r.tag = "Panic" THEN r ELSE tuple_to_usize_from(T, v, k - 1, r.val)

\* __impl_tuples, to_usize: the fields from the last (k = arity) to the first
tuple_to_usize_from(T, v, k, res) ==
    IF k = 0 THEN Ok(res)
    ELSE tuple_to_usize_rest(T, v, k,
            mul_add(res, INHABITANTS(T.fields[k]), to_usize(T.fields[k], v.t[k])))

\* a tuple encoding that walks the fields from the first to the last
tuple_to_usize_forward(T, v) ==
    tuple_to_usize_from([T EXCEPT !.fields = Reverse(T.fields)], [t |-> Reverse(v.t)],
                        Len(T.fields), 0)

tuple_to_usize(T, v) == tuple_to_usize_from(T, v, Len(T.fields), 0)

RECURSIVE array_to_usize_from(_, _, _, _)
\* the rest of the array's elements after a step that gave r
array_to_usize_rest(T, v, k, r) ==
    IF r.tag = "Panic" THEN r ELSE array_to_usize_from(T, v, k - 1, r.val)

\* [T; N], to_usize: for v in self.iter().rev()
array_to_usize_from(T, v, k, res) ==
    IF k = 0 THEN Ok(res)
    ELSE array_to_usize_rest(T, v, k,
            mul_add(res, INHABITANTS(T.elem), to_usize(T.elem, v.t[k])))

\* an array encoding that walks the elements without rev()
array_to_usize_forward(T, v) == array_to_usize_from(T, [t |-> Reverse(v.t)], T.len, 0)

array_to_usize(T, v) == array_to_usize_from(T, v, T.len, 0)

RECURSIVE fields_to_usize_from(_, _, _, _)
\* the rest of the fields after a step that gave r
fields_to_usize_rest(ns, ixs, k, r) ==
    IF r.tag = "Panic" THEN r ELSE fields_to_usize_from(ns, ixs, k + 1, r.val)

\* finite_impl_for_fields, to_usize: ns and ixs are the reversed lists of the
\* fields' INHABITANTS and of the fields' to_usize results, walked from their head
fields_to_usize_from(ns, ixs, k, res) ==
    IF k > Len(ns) THEN Ok(res)
    ELSE fields_to_usize_rest(ns, ixs, k, mul_add(res, ns[k], ixs[k]))

RECURSIVE fields_to_usize_each(_, _)
\* finite_impls_for_fields: each field's to_usize, in declaration order
fields_to_usize_each(ts, xs) ==
    IF ts = <<>> THEN <<>>
    ELSE <<to_usize(Head(ts), Head(xs))>> \o fields_to_usize_each(Tail(ts), Tail(xs))

\* an encoding of the fields without the reverse of the two lists
fields_to_usize_forward(ts, xs) ==
    fields_to_usize_from(fields_inhabitants(ts), fields_to_usize_each(ts, xs), 1, 0)

\* finite_impl_for_fields, to_usize: both lists reversed, then res *= n; res += idx
fields_to_usize(ts, xs) ==
    fields_to_usize_from(Reverse(fields_inhabitants(ts)),
                         Reverse(fields_to_usize_each(ts, xs)), 1, 0)

struct_to_usize(T, v) == fields_to_usize(T.fields, v.t)

\* the offset of variant j: 0 + the INHABITANTS of the variants declared before it
variant_offset(T, j) == sum_fold(0, SubSeq(variants_inhabitants(T.variants), 1, j - 1))

\* the Ok or Panic of a usize addition or multiplication
ok_or_panic(a) == IF a.tag = "Panic" THEN a ELSE Ok(a.val)

\* finite_impl, Data::Enum, to_usize: the variant's offset plus its product index
add_offset(offset, r) == IF r.tag = "Panic" THEN r ELSE ok_or_panic(usize_add(r.val, offset))

\* a to_usize that adds the offset of the variant and the variant's own INHABITANTS
enum_to_usize_inclusive(T, v) ==
    add_offset(sum_fold(0, SubSeq(variants_inhabitants(T.variants), 1, v.variant)),
               fields_to_usize(T.variants[v.variant], v.fields))

\* finite_impl_for_variant, to_usize: the variant's product index plus its offset
enum_to_usize(T, v) ==
    add_offset(variant_offset(T, v.variant),
               fields_to_usize(T.variants[v.variant], v.fields))

\* a to_usize of a range that forgets to subtract MIN
in_range_to_usize_raw(T, v) == Ok(v.n)

\* Finite for InRange and InRangeInclusive, to_usize: self.get() - MIN
in_range_to_usize(T, v) == Ok(v.n - T.A)

deref_to_usize(T, v) == to_usize(T.inner, v.inner)

to_usize(T, v) ==
    CASE T.kind = "phantom" -> phantom_to_usize(v)
      [] T.kind = "bool" -> bool_to_usize(v)
      [] T.kind = "uprim" -> uprim_to_usize(T, v)
      [] T.kind = "iprim" -> iprim_to_usize(T, v)
      [] T.kind = "unonzero" -> unonzero_to_usize(T, v)
      [] T.kind = "inonzero" -> inonzero_to_usize(T, v)
      [] T.kind = "char" -> char_to_usize(v)
      [] T.kind = "tuple" -> tuple_to_usize(T, v)
      [] T.kind = "array" -> array_to_usize(T, v)
      [] T.kind = "struct" -> struct_to_usize(T, v)
      [] T.kind = "enum" -> enum_to_usize(T, v)
      [] T.kind \in {"in_range", "in_range_inclusive"} -> in_range_to_usize(T, v)
      [] T.kind = "deref" -> deref_to_usize(T, v)

---------------------------------------------------------------------------
(* from_usize *)

RECURSIVE from_usize(_, _)

phantom_from_usize(i) == IF i = 0 THEN Some(PhantomVal) ELSE None

bool_from_usize(i) ==
    CASE i = 0 -> Some(BoolVal(FALSE))
      [] i = 1 -> Some(BoolVal(TRUE))
      [] OTHER -> None

uprim_from_usize(T, i) ==
    LET u == try_into(i, T.bits)
    IN  IF u.tag = "None" THEN None ELSE Some(IntVal(u.val))

iprim_from_usize(T, i) ==
    LET u == uprim_from_usize(UPrim(T.bits), i)
    IN  IF u.tag = "None" THEN None ELSE Some(IntVal(as_signed(u.val.n, T.bits)))

\* NonZero::new
nonzero_new(v) == IF v = 0 THEN None ELSE Some(IntVal(v))

\* the inverse with a plain i + 1 in place of checked_add
unonzero_from_usize_unchecked(T, i) ==
    LET a == usize_add(i, 1)
    IN  IF a.tag = "Panic" THEN a
        ELSE LET c == try_into(a.val, T.bits)
             IN  IF c.tag = "None" THEN None ELSE nonzero_new(c.val)

unonzero_from_usize(T, i) ==
    LET a == checked_add(i, 1)
    IN  IF a.tag = "None" THEN None
        ELSE LET c == try_into(a.val, T.bits)
             IN  IF c.tag = "None" THEN None ELSE nonzero_new(c.val)

inonzero_from_usize(T, i) ==
    LET a == checked_add(i, 1)
    IN  IF a.tag = "None" THEN None
        ELSE LET c == try_into(a.val, T.bits)
             IN  IF c.tag = "None" THEN None
                 ELSE nonzero_new(as_signed(c.val, T.bits))

\* the inverse with a plain i += CHAR_GAP_SIZE in place of checked_add
char_from_usize_unchecked(i) ==
    LET a == IF i >= CHAR_GAP_START THEN usize_add(i, CHAR_GAP_SIZE) ELSE Some(i)
    IN  IF a.tag = "Panic" THEN a
        ELSE LET c == try_into_u32(a.val)
             IN  IF c.tag = "None" THEN None ELSE char_from_u32(c.val)

char_from_usize(i) ==
    LET a == IF i >= CHAR_GAP_START THEN checked_add(i, CHAR_GAP_SIZE) ELSE Some(i)
    IN  IF a.tag = "None" THEN None
        ELSE LET c == try_into_u32(a.val)
             IN  IF c.tag = "None" THEN None ELSE char_from_u32(c.val)

\* one field of a product decoding:
\*   let v = T::from_usize(i % T::INHABITANTS).unwrap(); i /= T::INHABITANTS; v
\* the result carries the field's value and the i that is left
field_unwrap(r, rest) ==
    CASE r.tag = "Panic" -> r
      [] r.tag = "None" -> Panic("called Option::unwrap() on a None value")
      [] OTHER -> [tag |-> "Ok", val |-> r.val, i |-> rest]

\* a field decoding that leaves i undivided
field_from_usize_keep(T, i, n) ==
    IF n = 0
    THEN Panic("attempt to calculate the remainder with a divisor of zero")
    ELSE field_unwrap(from_usize(T, i % n), i)

field_from_usize(T, i, n) ==
    IF n = 0
    THEN Panic("attempt to calculate the remainder with a divisor of zero")
    ELSE field_unwrap(from_usize(T, i % n), i \div n)

finite_impl_for_field_from_usize(T, i) == field_from_usize(T, i, INHABITANTS(T))

RECURSIVE fields_from_usize_backward(_, _, _)
\* the last field of ts decoded to r: on to the fields before it
fields_from_usize_backward_rest(ts, acc, r) ==
    IF r.tag = "Panic" THEN r
    ELSE fields_from_usize_backward(SubSeq(ts, 1, Len(ts) - 1), r.i, <<r.val>> \o acc)

\* a decoding that takes the fields from the last declared to the first
fields_from_usize_backward(ts, i, acc) ==
    IF ts = <<>> THEN Some(ProductVal(acc))
    ELSE fields_from_usize_backward_rest(ts, acc,
            finite_impl_for_field_from_usize(ts[Len(ts)], i))

RECURSIVE fields_from_usize(_, _, _)
\* the fields left after a field that decoded to r
fields_from_usize_rest(ts, acc, r) ==
    IF r.tag = "Panic" THEN r ELSE fields_from_usize(Tail(ts), r.i, Append(acc, r.val))

\* the fields of a product decoded in declaration order, each from the i the
\* fields before it left
fields_from_usize(ts, i, acc) ==
    IF ts = <<>> THEN Some(ProductVal(acc))
    ELSE fields_from_usize_rest(ts, acc, finite_impl_for_field_from_usize(Head(ts), i))

\* a tuple's from_usize without its range guard
tuple_from_usize_unguarded(T, i) == fields_from_usize(T.fields, i, <<>>)

\* __impl_tuples, from_usize
tuple_from_usize(T, i) ==
    IF i >= INHABITANTS(T) THEN None ELSE fields_from_usize(T.fields, i, <<>>)

RECURSIVE array_from_fn(_, _, _, _)
\* the elements left after an element that decoded to r
array_from_fn_rest(T, k, acc, r) ==
    IF r.tag = "Panic" THEN r ELSE array_from_fn(T, k + 1, r.i, Append(acc, r.val))

\* core::array::from_fn with the decoding closure, called for k = 1..N in order
array_from_fn(T, k, i, acc) ==
    IF k > T.len THEN Some(ProductVal(acc))
    ELSE array_from_fn_rest(T, k, acc, finite_impl_for_field_from_usize(T.elem, i))

\* [T; N], from_usize
array_from_usize(T, i) ==
    IF i >= INHABITANTS(T) THEN None ELSE array_from_fn(T, 1, i, <<>>)

\* impl_finite with finite_impl, Data::Struct: the guard, then the constructor
struct_from_usize(T, i) ==
    IF i >= INHABITANTS(T) THEN None ELSE fields_from_usize(T.fields, i, <<>>)

\* Self::Variant(fields...) of the decoded fields r
variant_new(j, r) == IF r.tag = "Panic" THEN r ELSE Some(EnumVal(j, r.val.t))

\* finite_impl_for_variant, from_usize: Some(Self::Variant(fields...))
variant_from_usize(T, j, i) == variant_new(j, fields_from_usize(T.variants[j], i, <<>>))

RECURSIVE enum_scan(_, _, _)
\* a scan that enters a variant when i <= INHABITANTS
enum_scan_variant_inclusive(T, j, i, n) ==
    IF i <= n THEN variant_from_usize(T, j, i) ELSE enum_scan(T, j + 1, i - n)

\* one variant of the scan, n its INHABITANTS
enum_scan_variant(T, j, i, n) ==
    IF i < n THEN variant_from_usize(T, j, i) ELSE enum_scan(T, j + 1, i - n)

\* finite_impl, Data::Enum, from_usize: for each variant in declaration order,
\*   if i < INHABITANTS { return from_usize } i -= INHABITANTS;
\* and unreachable!() after the last
enum_scan(T, j, i) ==
    IF j > Len(T.variants) THEN Panic("internal error: entered unreachable code")
    ELSE enum_scan_variant(T, j, i, finite_impl_for_fields_inhabitants(T.variants[j]))

\* impl_finite with finite_impl, Data::Enum: the guard, then the scan
enum_from_usize(T, i) ==
    IF i >= INHABITANTS(T) THEN None ELSE enum_scan(T, 1, i)

\* an offset_from_start that accepts the offset INHABITANTS too
offset_from_start_inclusive(T, i) ==
    IF checked_sub(i, T.A).tag = "None" THEN None
    ELSE IF checked_sub(i, T.A).val <= INHABITANTS(T) THEN Some(checked_sub(i, T.A).val)
    ELSE None

\* InRangeBounds::offset_from_start
offset_from_start(T, i) ==
    LET offset == checked_sub(i, T.A)
    IN  IF offset.tag = "None" THEN None
        ELSE IF offset.val < INHABITANTS(T) THEN Some(offset.val) ELSE None

\* InRangeBounds::get
get(v) == v.n

\* InRangeBounds::in_bounds
in_bounds(T, i) == offset_from_start(T, i).tag = "Some"

\* InRangeBounds::new; new_unchecked stores i
new(T, i) == IF in_bounds(T, i) THEN Some(IntVal(i)) ELSE None

\* InRangeBounds::new_from_start_offset: Self::new(Self::MIN::USIZE + offset)
new_from_start_offset(T, offset) ==
    LET s == usize_add(T.A, offset)
    IN  IF s.tag = "Panic" THEN s ELSE new(T, s.val)

in_range_from_usize(T, i) == new_from_start_offset(T, i)

\* Some(x?.into())
deref_into(r) == IF r.tag = "Some" THEN Some(BoxVal(r.val)) ELSE r

\* impl_deref: Some(T::from_usize(i)?.into())
deref_from_usize(T, i) == deref_into(from_usize(T.inner, i))

from_usize(T, i) ==
    CASE T.kind = "phantom" -> phantom_from_usize(i)
      [] T.kind = "bool" -> bool_from_usize(i)
      [] T.kind = "uprim" -> uprim_from_usize(T, i)
      [] T.kind = "iprim" -> iprim_from_usize(T, i)
      [] T.kind = "unonzero" -> unonzero_from_usize(T, i)
      [] T.kind = "inonzero" -> inonzero_from_usize(T, i)
      [] T.kind = "char" -> char_from_usize(i)
      [] T.kind = "tuple" -> tuple_from_usize(T, i)
      [] T.kind = "array" -> array_from_usize(T, i)
      [] T.kind = "struct" -> struct_from_usize(T, i)
      [] T.kind = "enum" -> enum_from_usize(T, i)
      [] T.kind \in {"in_range", "in_range_inclusive"} -> in_range_from_usize(T, i)
      [] T.kind = "deref" -> deref_from_usize(T, i)

---------------------------------------------------------------------------
(* The types the model is run on *)

TupleStruct == Struct(<<U8, Bool>>)
NamedStruct == Struct(<<Bool, U8, Option(Bool)>>)
Big == Struct(<<NonZeroUsize>>)
TooBig == Enum(<< <<NonZeroUsize>>, <<>> >>)
TupleEnum == Enum(<< <<U8, Bool>>, <<Unit>>, <<>> >>)
MixedEnum == Enum(<< <<>>, <<U8>>, <<Option(Bool), U8>> >>)
GenericComplexEnum ==
    Enum(<< <<Option(Unit)>>, <<Unit, Unit>>, <<>>, <<Array(Unit, 10)>> >>)
\* an enum with uninhabited variants between inhabited ones
VoidEnum == Enum(<< <<Bool>>, <<Infallible>>, <<Bool, Infallible>>, <<>>, <<Bool, Bool>> >>)
Color == Enum(<< <<>>, <<>>, <<>> >>)

PrimitiveTypes ==
    { PhantomData, Bool, U8, U16, I8, I16, NonZeroU(8), NonZeroU(16), NonZeroUsize,
      NonZeroI(8), NonZeroI(16), NonZeroIsize, Char }

RangeTypes ==
    { InRange(1, 3), InRangeInclusive(1, 3), InRange(2, 2), InRange(0, USIZE_MAX),
      InRangeInclusive(1, USIZE_MAX), InRange(USIZE_MAX - 2, USIZE_MAX) }

TupleTypes ==
    { Unit, Tuple(<<U8, Bool>>), Tuple(<<Bool, U8>>), Tuple(<<U8, U8>>),
      Tuple(<<Bool, Bool, Bool>>), Tuple(<<Bool, Infallible>>),
      Tuple(<<Infallible, U8>>), Tuple(<<Option(Bool), Bool, Color>>),
      Tuple(<<InRange(1, 3), Bool>>), Tuple(<<NonZeroU(8), I8>>) }

ArrayTypes ==
    { Array(U8, 0), Array(U8, 1), Array(U8, 2), Array(Unit, 12), Array(Bool, 3),
      Array(Infallible, 0), Array(Infallible, 2), Array(Color, 2) }

StructTypes ==
    { Struct(<<>>), TupleStruct, NamedStruct, Big, Struct(<<Bool, Bool>>),
      Struct(<<Infallible, Bool>>), Struct(<<Array(Bool, 2), Color>>) }

EnumTypes ==
    { Infallible, Color, Option(Bool), Option(U8), Result(Bool, Unit), TupleEnum,
      MixedEnum, GenericComplexEnum, VoidEnum, Option(Infallible) }

DerefTypes == { Deref(Array(Bool, 2)), Deref(Color) }

\* types whose number of inhabitants exceeds usize::MAX
OversizedTypes ==
    { TooBig, Tuple(<<NonZeroUsize, Bool>>), Array(Bool, UsizeBits),
      Array(Bool, Pow(2, U32Bits)), Array(U8, 3),
      Struct(<<U16, U8>>), InRangeInclusive(0, USIZE_MAX), Struct(<<TooBig, Infallible>>),
      UPrim(UsizeBits) }

CompositeTypes == TupleTypes \cup ArrayTypes \cup StructTypes \cup EnumTypes

Universe ==
    PrimitiveTypes \cup RangeTypes \cup CompositeTypes \cup DerefTypes \cup OversizedTypes

---------------------------------------------------------------------------
(* Inputs: the values and the indices the operations are run on *)

RECURSIVE SeqProd(_)
\* all sequences whose k-th element is drawn from the k-th set
SeqProd(sets) ==
    IF sets = <<>> THEN {<<>>}
    ELSE {<<h>> \o t : h \in Head(sets), t \in SeqProd(Tail(sets))}

\* the numbers of an integer-like type: all of a small range, the edges of the others
SampleInts(T) ==
    CASE T.kind = "uprim" ->
            {0, 1, 2, Pow(2, T.bits - 1) - 1, Pow(2, T.bits - 1),
             Pow(2, T.bits) - 2, Pow(2, T.bits) - 1}
      [] T.kind = "iprim" ->
            {0 - Pow(2, T.bits - 1), 1 - Pow(2, T.bits - 1), -1, 0, 1,
             Pow(2, T.bits - 1) - 1}
      [] T.kind = "unonzero" ->
            {1, 2, Pow(2, T.bits - 1), Pow(2, T.bits) - 2, Pow(2, T.bits) - 1}
      [] T.kind = "inonzero" ->
            {0 - Pow(2, T.bits - 1), -2, -1, 1, 2, Pow(2, T.bits - 1) - 1}
      [] T.kind = "char" ->
            {0, 65, CHAR_GAP_START - 1, CHAR_GAP_END + 1, CHAR_GAP_END + 2, CHAR_MAX}
      [] T.kind = "in_range" ->
            {v \in {T.A, T.A + 1, T.B - 2, T.B - 1} : T.A <= v /\ v < T.B}
      [] T.kind = "in_range_inclusive" ->
            {v \in {T.A, T.A + 1, T.B - 1, T.B} : T.A <= v /\ v <= T.B}

RECURSIVE SampleVals(_)
RECURSIVE FieldsVals(_)
FieldsVals(ts) ==
    IF ts = <<>> THEN <<>> ELSE <<SampleVals(Head(ts))>> \o FieldsVals(Tail(ts))

\* values of type T: all of them for the small types, the edges of the others
SampleVals(T) ==
    CASE T.kind = "phantom" -> {PhantomVal}
      [] T.kind = "bool" -> {BoolVal(x) : x \in BOOLEAN}
      [] T.kind \in {"uprim", "iprim", "unonzero", "inonzero", "char", "in_range",
                     "in_range_inclusive"} -> {IntVal(x) : x \in SampleInts(T)}
      [] T.kind \in {"tuple", "struct"} ->
            {ProductVal(xs) : xs \in SeqProd(FieldsVals(T.fields))}
      [] T.kind = "array" ->
            {ProductVal(xs) : xs \in SeqProd([k \in 1..T.len |-> SampleVals(T.elem)])}
      [] T.kind = "enum" ->
            UNION { {EnumVal(j, xs) : xs \in SeqProd(FieldsVals(T.variants[j]))}
                    : j \in 1..Len(T.variants) }
      [] T.kind = "deref" -> {BoxVal(v) : v \in SampleVals(T.inner)}

\* the integers within Near of n
Around(n) == (n - Near)..(n + Near)

\* indices for from_usize: the small ones, and those around INHABITANTS, the
\* powers of two and usize::MAX
SampleIdxOf(n) ==
    {i \in (0..Min(SmallIdx, n + Near)) \cup Around(n) \cup Around(USIZE_MAX)
            \cup UNION {Around(Pow(2, k)) : k \in 1..UsizeBits} :
        0 <= i /\ i <= USIZE_MAX}

SampleIdx(T) == SampleIdxOf(INHABITANTS(T))

---------------------------------------------------------------------------
(* iter_all *)

NoIter == [state |-> "none", start |-> 0, end |-> 0, count |-> 0, last |-> None]

\* an iter_all over the inclusive range 0..=INHABITANTS
iter_all_inclusive(T) ==
    [state |-> "iterating", start |-> 0, end |-> INHABITANTS(T) + 1, count |-> 0,
     last |-> None]

\* FiniteExt::iter_all: IterAll((0..Self::INHABITANTS).map(from_usize ... expect))
iter_all(T) ==
    [state |-> "iterating", start |-> 0, end |-> INHABITANTS(T), count |-> 0,
     last |-> None]

\* .expect("unexpected None returned from Finite::from_usize in range") on the
\* from_usize of the Range's next index
expect(self, r) ==
    IF r.tag = "Some"
    THEN [self EXCEPT !.start = self.start + 1, !.count = self.count + 1, !.last = r]
    ELSE [self EXCEPT !.state = "panicked", !.last = r]

\* IterAll::next: the Range's next index mapped through from_usize(i).expect(...)
IterAll_next(T, self) ==
    IF self.start < self.end
    THEN expect(self, from_usize(T, self.start))
    ELSE [self EXCEPT !.state = "done", !.last = None]

---------------------------------------------------------------------------
(* ExhaustiveMap<K, V>.  The map is [state, vkind, array]: array is the     *)
(* Box<[V]>, vkind says what V is: "plain" for a value type with values     *)
(* [v |-> 0..MaxVal], "option" for Option of it with [none |-> 0] and       *)
(* [some |-> x], "uninit" for MaybeUninit of it with [uninit |-> 0] and     *)
(* [v |-> x].                                                               *)

NoMap == [state |-> "none", vkind |-> "none", array |-> <<>>]
Consumed == [state |-> "consumed", vkind |-> "none", array |-> <<>>]
Live(vkind, array) == [state |-> "live", vkind |-> vkind, array |-> array]

PlainVals == {[v |-> x] : x \in 0..MaxVal}
Uninit == [uninit |-> 0]
NoneVal == [none |-> 0]
SomeVal(x) == [some |-> x]

\* the values of the value type V
SlotVals(vkind) ==
    CASE vkind = "plain" -> PlainVals
      [] vkind = "option" -> {NoneVal} \cup {SomeVal(x) : x \in 0..MaxVal}
      [] vkind = "uninit" -> {Uninit} \cup PlainVals

\* V::default()
default_value(vkind) == IF vkind = "option" THEN NoneVal ELSE [v |-> 0]

Err(e) == [tag |-> "Err", val |-> e]

\* A collect in progress is [array, calls]: the values collected so far and the
\* arguments the closure was called with so far.  A closure call returns
\* [tag, val, calls]: what the operation returned and the calls it made.
NoCalls == [array |-> <<>>, calls |-> <<>>]

\* the closure was called with x and returned v, which the collect keeps
push(acc, x, v) == [array |-> Append(acc.array, v), calls |-> Append(acc.calls, x)]

\* the operation returns r after the calls of acc
returned(r, acc) == [tag |-> r.tag, val |-> IF r.tag = "Panic" THEN r.why ELSE r.val,
                     calls |-> acc.calls]

RECURSIVE collect_iter_all(_, _, _, _)
\* the collect after the iterator moved to nx
collect_item(T, nx, f, acc) ==
    CASE nx.state = "done" -> returned(Ok(acc.array), acc)
      [] nx.state = "panicked" ->
            returned(Panic("unexpected None returned from Finite::from_usize in range"), acc)
      [] OTHER -> collect_iter_all(T, nx, f, push(acc, nx.last.val, f[nx.last.val]))

\* K::iter_all().map(f).collect(): f is called on each key as the iterator yields it
collect_iter_all(T, self, f, acc) == collect_item(T, IterAll_next(T, self), f, acc)

\* Self { array, _phantom } of a collected array r
with_array(vkind, r) == IF r.tag = "Ok" THEN [r EXCEPT !.val = Live(vkind, r.val)] ELSE r

\* the collected array r in reverse order
reversed(r) == IF r.tag = "Ok" THEN [r EXCEPT !.val = Reverse(r.val)] ELSE r

\* a from_fn that stores the values last key first
from_fn_reversed(T, vkind, f) ==
    with_array(vkind, reversed(collect_iter_all(T, iter_all(T), f, NoCalls)))

\* ExhaustiveMap::from_fn
from_fn(T, vkind, f) == with_array(vkind, collect_iter_all(T, iter_all(T), f, NoCalls))

RECURSIVE try_collect_iter_all(_, _, _, _)
\* a collect that keeps what f returned, an Err too, and goes on
try_collect_result_on(T, nx, f, acc, x) ==
    try_collect_iter_all(T, nx, f, push(acc, nx.last.val, x))

\* the collect after f returned x for the key the iterator yielded
try_collect_result(T, nx, f, acc, x) ==
    IF x.tag = "Err" THEN returned(x, push(acc, nx.last.val, x))
    ELSE try_collect_iter_all(T, nx, f, push(acc, nx.last.val, x.val))

\* the collect after the iterator moved to nx
try_collect_item(T, nx, f, acc) ==
    CASE nx.state = "done" -> returned(Ok(acc.array), acc)
      [] nx.state = "panicked" ->
            returned(Panic("unexpected None returned from Finite::from_usize in range"), acc)
      [] OTHER -> try_collect_result(T, nx, f, acc, f[nx.last.val])

\* K::iter_all().map(f).collect::<Result<_, E>>(): stops at the first Err
try_collect_iter_all(T, self, f, acc) == try_collect_item(T, IterAll_next(T, self), f, acc)

\* ExhaustiveMap::try_from_fn
try_from_fn(T, vkind, f) ==
    with_array(vkind, try_collect_iter_all(T, iter_all(T), f, NoCalls))

RECURSIVE collect_range_down(_, _, _, _)
\* a collect over the range taken from its end: f is called on end - 1 first
collect_range_down(start, end, f, acc) ==
    IF start < end THEN collect_range_down(start, end - 1, f, push(acc, end - 1, f[end - 1]))
    ELSE returned(Ok(acc.array), acc)

RECURSIVE collect_range(_, _, _, _)
\* (start..end).map(f).collect()
collect_range(start, end, f, acc) ==
    IF start < end THEN collect_range(start + 1, end, f, push(acc, start, f[start]))
    ELSE returned(Ok(acc.array), acc)

\* a from_usize_fn over the inclusive range 0..=INHABITANTS
from_usize_fn_inclusive(T, vkind, f) ==
    with_array(vkind, collect_range(0, INHABITANTS(T) + 1, f, NoCalls))

\* ExhaustiveMap::from_usize_fn
from_usize_fn(T, vkind, f) ==
    with_array(vkind, collect_range(0, INHABITANTS(T), f, NoCalls))

\* ExhaustiveMap::len
len(T, self) == INHABITANTS(T)

\* ExhaustiveMap::is_empty
is_empty(T, self) == INHABITANTS(T) = 0

\* the bounds-checked position in the array of the index i that to_usize returned
slice_index(array, i) ==
    IF i.tag = "Panic" THEN i
    ELSE IF i.val >= Len(array) THEN Panic("index out of bounds")
    ELSE Ok(i.val + 1)

\* Index::index and IndexMut::index_mut: self.array[K::to_usize(index.borrow())]
index(T, self, k) == slice_index(self.array, to_usize(T, k))

\* core::mem::replace(dest, v) on the slot at position p
mem_replace(self, p, v) ==
    IF p.tag = "Panic" THEN [map |-> self, ret |-> p]
    ELSE [map |-> [self EXCEPT !.array[p.val] = v], ret |-> Ok(self.array[p.val])]

\* a replace that stores v in every slot
replace_fill(T, self, k, v) ==
    [map |-> [self EXCEPT !.array = [p \in DOMAIN self.array |-> v]],
     ret |-> Ok(self.array[index(T, self, k).val])]

\* ExhaustiveMap::replace: std::mem::replace(&mut self[k], v)
replace(T, self, k, v) == mem_replace(self, index(T, self, k), v)

\* <[V]>::swap(a, b): both positions are bounds-checked, then exchanged
slice_swap(self, a, b) ==
    IF a.tag = "Panic" THEN [map |-> self, ret |-> a]
    ELSE IF b.tag = "Panic" THEN [map |-> self, ret |-> b]
    ELSE [map |-> [self EXCEPT !.array[a.val] = self.array[b.val],
                               !.array[b.val] = self.array[a.val]],
          ret |-> Ok(<<>>)]

\* a swap that copies the slot of k2 into the slot of k1 and leaves k2 alone
swap_copy(T, self, k1, k2) ==
    [map |-> [self EXCEPT !.array[index(T, self, k1).val] =
                              self.array[index(T, self, k2).val]],
     ret |-> Ok(<<>>)]

\* ExhaustiveMap::swap: self.array.swap(k1.to_usize(), k2.to_usize())
swap(T, self, k1, k2) ==
    slice_swap(self, slice_index(self.array, to_usize(T, k1)),
                     slice_index(self.array, to_usize(T, k2)))

\* ExhaustiveMap::take: std::mem::take(&mut self[k])
take(T, self, k) == mem_replace(self, index(T, self, k), default_value(self.vkind))

\* the assignment *dest = v to the slot at position p
assign(self, p, v) ==
    IF p.tag = "Panic" THEN [map |-> self, ret |-> p]
    ELSE [map |-> [self EXCEPT !.array[p.val] = v], ret |-> Ok(<<>>)]

\* map[k] = v through IndexMut
index_assign(T, self, k, v) == assign(self, index(T, self, k), v)

\* ExhaustiveMap::into_values: the values in array order
into_values(self) == self.array

\* ExhaustiveMap::keys: K::iter_all()
keys(T) == iter_all(T)

\* ExhaustiveMap::values: self.array.iter(), the slots in array order
values(self) == self.array

\* ExhaustiveMap::values_mut: self.array.iter_mut(), the slots in array order
values_mut(self) == self.array

RECURSIVE zip(_, _, _, _)
\* Zip::next after its first iterator moved to nx: the end when either side is
\* exhausted, else the pair of the key and the next value
zip_item(T, nx, b, acc) ==
    CASE nx.state = "done" -> Ok(acc)
      [] nx.state = "panicked" ->
            Panic("unexpected None returned from Finite::from_usize in range")
      [] b = <<>> -> Ok(acc)
      [] OTHER -> zip(T, nx, Tail(b), Append(acc, <<nx.last.val, Head(b)>>))

\* a.zip(b) consumed to its end: the pairs it yields, in order
zip(T, a, b, acc) == zip_item(T, IterAll_next(T, a), b, acc)

\* ExhaustiveMap::iter: Iter(Self::keys().zip(self.values()))
iter(T, self) == zip(T, keys(T), values(self), <<>>)

\* ExhaustiveMap::iter_mut: IterMut(Self::keys().zip(self.values_mut()))
iter_mut(T, self) == zip(T, keys(T), values_mut(self), <<>>)

\* an into_iter that pairs the keys with the values taken last slot first
into_iter_reversed(T, self) == zip(T, keys(T), Reverse(into_values(self)), <<>>)

\* IntoIterator for ExhaustiveMap: IntoIter(Self::keys().zip(self.into_values()))
into_iter(T, self) == zip(T, keys(T), into_values(self), <<>>)

RECURSIVE collect_map(_, _, _)
\* values.map(f).collect()
collect_map(vals, f, acc) ==
    IF vals = <<>> THEN returned(Ok(acc.array), acc)
    ELSE collect_map(Tail(vals), f, push(acc, Head(vals), f[Head(vals)]))

\* a map_values that stores the new values last slot first
map_values_reversed(self, vkind, f) ==
    with_array(vkind, reversed(collect_map(into_values(self), f, NoCalls)))

\* ExhaustiveMap::map_values
map_values(self, vkind, f) == with_array(vkind, collect_map(into_values(self), f, NoCalls))

\* ExhaustiveMap::new_uninit
new_uninit(T) == from_usize_fn(T, "uninit", [i \in 0..INHABITANTS(T) |-> Uninit])

\* Default::default
default(T, vkind) == from_fn(T, vkind, [k \in SampleVals(T) |-> default_value(vkind)])

\* TryFrom<Box<[V]>>
try_from_box(T, vkind, value) ==
    IF Len(value) # INHABITANTS(T) THEN Err(value) ELSE Ok(Live(vkind, value))

\* TryFrom<Vec<V>>
try_from_vec(T, vkind, value) ==
    IF Len(value) # INHABITANTS(T) THEN Err(value) ELSE Ok(Live(vkind, value))

\* a conversion from an array of any length
try_from_array_unchecked(T, vkind, value) == Ok(Live(vkind, value))

\* TryFrom<[V; N]>
try_from_array(T, vkind, value) ==
    IF Len(value) # INHABITANTS(T) THEN Err(value) ELSE Ok(Live(vkind, value))

\* a try_unwrap_values that takes None for the value 0
try_unwrap_values_or_zero(T, self) ==
    Ok(Live("plain", [p \in DOMAIN self.array |->
                         IF self.array[p] = NoneVal THEN [v |-> 0]
                         ELSE [v |-> self.array[p].some]]))

\* ExhaustiveMap<K, Option<V>>::try_unwrap_values
try_unwrap_values(T, self) ==
    IF ~ \A p \in 1..Len(self.array) : self.array[p] # NoneVal
    THEN Err(self)
    ELSE LET unwrapped == collect_map(self.array, [x \in SlotVals("option") \ {NoneVal} |->
                                                   [v |-> x.some]], NoCalls).val
             r == try_from_box(T, "plain", unwrapped)
         IN  \* unwrap_unchecked: an Err here is undefined behaviour
             IF r.tag = "Ok" THEN r ELSE [tag |-> "UB", val |-> unwrapped]

\* an assume_init that leaves no slot as it was written
assume_init_fresh(self, garbage) ==
    Live("plain", [p \in 1..Len(self.array) |-> garbage[p]])

\* ExhaustiveMap<K, MaybeUninit<V>>::assume_init: a transmute of the array.  A slot
\* that was never written holds whatever its memory holds: garbage[p].
assume_init(self, garbage) ==
    Live("plain", [p \in 1..Len(self.array) |->
                      IF self.array[p] = Uninit THEN garbage[p] ELSE self.array[p]])

\* From<ExhaustiveMap<K, V>> for Box<[V]>
into_box(self) == self.array

\* a conversion from a hash map that fills in V::default() for a missing key
try_from_hash_map_or_default(T, vkind, value) ==
    try_from_fn(T, vkind, [k \in SampleVals(T) |->
                              IF k \in DOMAIN value THEN Ok(value[k])
                              ELSE Ok(default_value(vkind))])

\* TryFrom<HashMap<K, V>>: try_from_fn(|k| value.remove(&k).ok_or(k))
try_from_hash_map(T, vkind, value) ==
    try_from_fn(T, vkind, [k \in SampleVals(T) |->
                              IF k \in DOMAIN value THEN Ok(value[k]) ELSE Err(k)])

---------------------------------------------------------------------------
(* The Finite operations as a state machine.  The operations are pure, so   *)
(* each is run on its own, from the state in which nothing else has run:    *)
(* from_usize on any index, to_usize on any value, iter_all to its end.     *)

FiniteInit ==
    /\ ty \in Universe
    /\ implemented = Implemented(ty)
    /\ overflow_checks \in BOOLEAN
    /\ op = "none"
    /\ arg = 0
    /\ result = None
    /\ it = NoIter
    /\ map = NoMap
    /\ calls = <<>>

FromUsize ==
    /\ implemented
    /\ op = "none"
    /\ it.state = "none"
    /\ \E i \in SampleIdx(ty) :
          /\ op' = "from_usize"
          /\ arg' = i
          /\ result' = from_usize(ty, i)
    /\ UNCHANGED <<ty, implemented, overflow_checks, it, map, calls>>

ToUsize ==
    /\ implemented
    /\ op = "none"
    /\ it.state = "none"
    /\ \E v \in SampleVals(ty) :
          /\ op' = "to_usize"
          /\ arg' = v
          /\ result' = to_usize(ty, v)
    /\ UNCHANGED <<ty, implemented, overflow_checks, it, map, calls>>

New ==
    /\ implemented
    /\ op = "none"
    /\ it.state = "none"
    /\ ty.kind \in {"in_range", "in_range_inclusive"}
    /\ \E i \in SampleIdx(ty) :
          /\ op' = "new"
          /\ arg' = i
          /\ result' = new(ty, i)
    /\ UNCHANGED <<ty, implemented, overflow_checks, it, map, calls>>

IterAll ==
    /\ implemented
    /\ op = "none"
    /\ it.state = "none"
    /\ INHABITANTS(ty) <= MaxIter
    /\ it' = iter_all(ty)
    /\ UNCHANGED <<ty, implemented, overflow_checks, op, arg, result, map, calls>>

IterAllNext ==
    /\ it.state = "iterating"
    /\ it' = IterAll_next(ty, it)
    /\ UNCHANGED <<ty, implemented, overflow_checks, op, arg, result, map, calls>>

Next == FromUsize \/ ToUsize \/ New \/ IterAll \/ IterAllNext

Spec == FiniteInit /\ [][Next]_vars

---------------------------------------------------------------------------
(* The bijection between a type's values and 0..INHABITANTS - 1 *)

\* C1: for every type with the bijection implemented and every index i below
\* its cardinality, from_usize(i) is Some(v) and v.to_usize() is i.
C1_FromUsizeThenToUsize ==
    (op = "from_usize" /\ arg < INHABITANTS(ty)) =>
        (result.tag = "Some" /\ to_usize(ty, result.val) = Ok(arg))

\* the last index of the enum with a unit, a tuple and a struct variant decodes
C1_Witness ==
    /\ op = "from_usize"
    /\ ty = MixedEnum
    /\ arg = INHABITANTS(MixedEnum) - 1
    /\ result = Some(EnumVal(3, <<EnumVal(2, <<BoolVal(TRUE)>>), IntVal(255)>>))

\* C2: for every value k, from_usize(k.to_usize()) is Some(k), and no other value
\* has the index of k: to_usize is injective.
C2_ToUsizeThenFromUsize ==
    op = "to_usize" =>
        /\ result.tag = "Ok"
        /\ from_usize(ty, result.val) = Some(arg)
        /\ \A v \in SampleVals(ty) : to_usize(ty, v) = result => v = arg

\* a tuple of a nonzero and a signed integer, both negative-most or largest
C2_Witness ==
    /\ op = "to_usize"
    /\ ty = Tuple(<<NonZeroU(8), I8>>)
    /\ arg = ProductVal(<<IntVal(255), IntVal(-1)>>)
    /\ result = Ok(254 + 255 * 255)

\* C3: for a tuple, array, derived struct or derived enum, every index i with
\* cardinality <= i <= usize::MAX decodes to None, with no panic: the guard runs
\* before any unwrap, remainder, division or unreachable!().
C3_OutOfRangeIsNone ==
    (op = "from_usize" /\ ty \in CompositeTypes /\ arg >= INHABITANTS(ty)) =>
        result = None

\* usize::MAX on an enum with uninhabited variants
C3_Witness ==
    /\ op = "from_usize"
    /\ ty = VoidEnum
    /\ arg = USIZE_MAX
    /\ result = None

\* C4: iter_all yields exactly cardinality elements, the p-th being
\* from_usize(p); it calls from_usize with no index at or above the cardinality,
\* and its expect never fires.
C4_IterAll ==
    it.state # "none" =>
        /\ it.state # "panicked"
        /\ it.end = INHABITANTS(ty)
        /\ it.start <= it.end
        /\ it.count = it.start
        /\ (it.state = "iterating" /\ it.count > 0) =>
              (it.last.tag = "Some" /\ it.last = from_usize(ty, it.count - 1))
        /\ it.state = "done" => it.count = INHABITANTS(ty)

\* the iteration over (u8, bool) ended after 512 elements
C4_Witness ==
    /\ ty = Tuple(<<U8, Bool>>)
    /\ it.state = "done"
    /\ it.count = 512

\* the n-tuple of T that corresponds to the array [T; n]
TupleOf(T) == Tuple([k \in 1..T.len |-> T.elem])

\* C5: an array [T; n] and the n-tuple of T have the same to_usize, and their
\* from_usize gives the same sequence of elements.
C5_ArrayAsTuple ==
    ty.kind = "array" =>
        /\ op = "to_usize" => result = to_usize(TupleOf(ty), arg)
        /\ op = "from_usize" => result = from_usize(TupleOf(ty), arg)

\* [1u8, 2u8] has the index of (1u8, 2u8)
C5_Witness ==
    /\ ty = Array(U8, 2)
    /\ op = "to_usize"
    /\ arg = ProductVal(<<IntVal(1), IntVal(2)>>)
    /\ result = Ok(513)

---------------------------------------------------------------------------
(* The positions of the fields and the variants in an index *)

\* the cardinalities of the field types ts
FieldCards(ts) == [k \in 1..Len(ts) |-> INHABITANTS(ts[k])]

\* the indices of the field values xs of types ts
FieldIdx(ts, xs) == [k \in 1..Len(ts) |-> to_usize(ts[k], xs[k]).val]

RECURSIVE FirstLeastSignificant(_, _)
\* the mixed-radix number with digits ixs in radices ns, the first the least
\* significant: i1 + n1 * (i2 + n2 * (...))
FirstLeastSignificant(ns, ixs) ==
    IF ns = <<>> THEN 0
    ELSE Head(ixs) + Head(ns) * FirstLeastSignificant(Tail(ns), Tail(ixs))

RECURSIVE FirstMostSignificant(_, _, _)
\* the mixed-radix number with digits ixs in radices ns, the first the most
\* significant: (...((i1) * n2 + i2) * n3 + ...)
FirstMostSignificant(ns, ixs, acc) ==
    IF ns = <<>> THEN acc
    ELSE FirstMostSignificant(Tail(ns), Tail(ixs), acc * Head(ns) + Head(ixs))

U8Bool == Tuple(<<U8, Bool>>)

\* C6, as amended: in a product's index the first declared field is the LEAST
\* significant mixed-radix digit; for (u8, bool) the cardinality is 512,
\* index((0, false)) = 0, index((0, true)) = 256 and index((1, false)) = 1.
C6_FirstFieldLeastSignificant ==
    /\ (op = "to_usize" /\ ty.kind \in {"tuple", "struct"}) =>
          result = Ok(FirstLeastSignificant(FieldCards(ty.fields),
                                            FieldIdx(ty.fields, arg.t)))
    /\ (op = "to_usize" /\ ty = U8Bool) =>
          /\ INHABITANTS(ty) = 512
          /\ arg = ProductVal(<<IntVal(0), BoolVal(FALSE)>>) => result = Ok(0)
          /\ arg = ProductVal(<<IntVal(0), BoolVal(TRUE)>>) => result = Ok(256)
          /\ arg = ProductVal(<<IntVal(1), BoolVal(FALSE)>>) => result = Ok(1)

\* (0u8, true) has index 256
C6_Witness ==
    /\ op = "to_usize"
    /\ ty = U8Bool
    /\ arg = ProductVal(<<IntVal(0), BoolVal(TRUE)>>)
    /\ result = Ok(256)

\* C6, as stated: the first declared field is the most significant digit; for
\* (u8, bool) index((0, false)) = 0, index((0, true)) = 1, index((1, false)) = 2.
C6_FirstFieldMostSignificant ==
    /\ (op = "to_usize" /\ ty.kind \in {"tuple", "struct"}) =>
          result = Ok(FirstMostSignificant(FieldCards(ty.fields),
                                           FieldIdx(ty.fields, arg.t), 0))
    /\ (op = "to_usize" /\ ty = U8Bool) =>
          /\ INHABITANTS(ty) = 512
          /\ arg = ProductVal(<<IntVal(0), BoolVal(FALSE)>>) => result = Ok(0)
          /\ arg = ProductVal(<<IntVal(0), BoolVal(TRUE)>>) => result = Ok(1)
          /\ arg = ProductVal(<<IntVal(1), BoolVal(FALSE)>>) => result = Ok(2)

\* the cardinality of variant j of the enum T
VariantCard(T, j) == finite_impl_for_fields_inhabitants(T.variants[j])

RECURSIVE RangeStart(_, _)
\* n1 + ... + n(j-1): where the indices of variant j start
RangeStart(T, j) == IF j = 1 THEN 0 ELSE RangeStart(T, j - 1) + VariantCard(T, j - 1)

\* C7: a value of variant vj of a sum type has the index n1 + ... + n(j-1) plus
\* the product index of its fields, so that vj has exactly the indices from
\* n1 + ... + n(j-1) up to but not including n1 + ... + nj, no two variants
\* share an index, and a 3-variant zero-field enum maps its variants to 0, 1, 2.
C7_VariantRanges ==
    /\ (op = "to_usize" /\ ty.kind = "enum") =>
          /\ result = Ok(RangeStart(ty, arg.variant)
                         + FirstLeastSignificant(FieldCards(ty.variants[arg.variant]),
                                                 FieldIdx(ty.variants[arg.variant],
                                                          arg.fields)))
          /\ RangeStart(ty, arg.variant) <= result.val
          /\ result.val < RangeStart(ty, arg.variant) + VariantCard(ty, arg.variant)
          /\ ty = Color => result.val = arg.variant - 1
    /\ (op = "from_usize" /\ ty.kind = "enum" /\ arg < INHABITANTS(ty)) =>
          /\ result.tag = "Some"
          /\ RangeStart(ty, result.val.variant) <= arg
          /\ arg < RangeStart(ty, result.val.variant) + VariantCard(ty, result.val.variant)
          /\ \A j \in 1..Len(ty.variants) :
                (RangeStart(ty, j) <= arg /\ arg < RangeStart(ty, j) + VariantCard(ty, j))
                    => j = result.val.variant

\* the first value of the third variant of an enum of cardinalities 1, 256, 768
C7_Witness ==
    /\ op = "to_usize"
    /\ ty = MixedEnum
    /\ arg = EnumVal(3, <<EnumVal(1, <<>>), IntVal(0)>>)
    /\ result = Ok(257)

RECURSIVE Product(_)
\* n1 * n2 * ... * nm, 1 for no factors
Product(ns) == IF ns = <<>> THEN 1 ELSE Head(ns) * Product(Tail(ns))

RECURSIVE Sum(_)
\* n1 + n2 + ... + nk, 0 for no terms
Sum(ns) == IF ns = <<>> THEN 0 ELSE Head(ns) + Sum(Tail(ns))

\* C8: the cardinality of a product of fields of cardinalities n1..nm is
\* n1 * ... * nm (1 for no fields, 0 if a field is uninhabited), that of a sum
\* of variants of cardinalities n1..nk is n1 + ... + nk (0 for no variants);
\* enum {A, B(u8), C{Option<bool>, u8}} has cardinality 1 + 256 + 3 * 256.
C8_Cardinality ==
    /\ ty.kind \in {"tuple", "struct"} =>
          /\ INHABITANTS(ty) = Product(FieldCards(ty.fields))
          /\ ty.fields = <<>> => INHABITANTS(ty) = 1
          /\ (\E k \in 1..Len(ty.fields) : INHABITANTS(ty.fields[k]) = 0) =>
                INHABITANTS(ty) = 0
    /\ ty.kind = "enum" =>
          /\ INHABITANTS(ty) =
                Sum([j \in 1..Len(ty.variants) |-> Product(FieldCards(ty.variants[j]))])
          /\ ty.variants = <<>> => INHABITANTS(ty) = 0
    /\ ty = MixedEnum => INHABITANTS(ty) = 1 + 256 + 3 * 256

\* the index 1 + 256 + 3 * 256 is the first that the mixed enum does not decode
C8_Witness ==
    /\ op = "from_usize"
    /\ ty = MixedEnum
    /\ arg = 1 + 256 + 3 * 256
    /\ INHABITANTS(ty) = arg
    /\ result = None

\* C9: a composite type whose true cardinality exceeds usize::MAX is rejected
\* at definition time, and no cardinality is reduced modulo 2^w:
\* enum {A(NonZeroUsize), B} of cardinality usize::MAX + 1 is rejected, and
\* struct {a: NonZeroUsize} is accepted with INHABITANTS = usize::MAX.
C9_OversizedRejected ==
    /\ INHABITANTS(ty) > USIZE_MAX => ~implemented
    /\ implemented => INHABITANTS(ty) <= USIZE_MAX
    /\ ty = TooBig => (INHABITANTS(ty) = USIZE_MAX + 1 /\ ~implemented)
    /\ ty = Big => (INHABITANTS(ty) = USIZE_MAX /\ implemented)
    /\ ~implemented => op = "none"

\* enum {A(NonZeroUsize), B} has no Finite implementation
C9_Witness ==
    /\ ty = TooBig
    /\ INHABITANTS(ty) = USIZE_MAX + 1
    /\ ~implemented

---------------------------------------------------------------------------
(* The ExhaustiveMap operations as a state machine: one key type K with at  *)
(* most MaxKeys inhabitants, a constructor, then any sequence of the        *)
(* operations on the map.                                                   *)

\* the key types: uninhabited, unit, primitive, enum with and without fields,
\* range and array types of at most MaxKeys inhabitants
MapKeyTypes ==
    {T \in {Infallible, Unit, Bool, Color, Option(Bool), InRangeInclusive(1, 3),
            Array(Bool, 2)} :
        Implemented(T) /\ INHABITANTS(T) <= MaxKeys}

\* the closures from S to D that send a zero, None or uninit value to a and the
\* others to b
Closures(S, D) ==
    {[x \in S |-> IF x \in {[v |-> 0], NoneVal, Uninit} THEN a ELSE b] : a \in D, b \in D}

\* the sequences over S of the lengths in lens
SeqsOf(S, lens) == UNION {[1..n -> S] : n \in lens}

\* the errors a closure may return
Errors == {Err([e |-> x]) : x \in 0..MaxVal}

\* the hash maps from keys to values: the functions on a subset of the keys
HashMaps(T, vkind) == UNION {[D -> SlotVals(vkind)] : D \in SUBSET SampleVals(T)}

MapInit ==
    /\ ty \in MapKeyTypes
    /\ implemented = Implemented(ty)
    /\ overflow_checks \in BOOLEAN
    /\ op = "none"
    /\ arg = 0
    /\ result = None
    /\ it = NoIter
    /\ map = NoMap
    /\ calls = <<>>

\* what the caller gets from an operation that returned r
outcome(r) == IF r.tag = "Panic" THEN Panic(r.val) ELSE [tag |-> r.tag, val |-> r.val]

\* a constructor returned r: the map exists when r is Ok
Constructed(name, input, r) ==
    /\ op' = name
    /\ arg' = input
    /\ result' = outcome(r)
    /\ map' = IF r.tag = "Ok" THEN r.val ELSE map
    /\ calls' = r.calls
    /\ UNCHANGED <<ty, implemented, overflow_checks, it>>

\* an operation on the existing map returned r.ret and left r.map
Operated(name, input, r) ==
    /\ op' = name
    /\ arg' = input
    /\ result' = r.ret
    /\ map' = r.map
    /\ calls' = <<>>
    /\ UNCHANGED <<ty, implemented, overflow_checks, it>>

\* a conversion of the existing map returned r: the new map when r is Ok
Converted(name, input, r) ==
    /\ op' = name
    /\ arg' = input
    /\ result' = outcome(r)
    /\ map' = IF r.tag = "Ok" THEN r.val ELSE map
    /\ calls' = r.calls
    /\ UNCHANGED <<ty, implemented, overflow_checks, it>>

MapFromFn ==
    /\ op = "none"
    /\ \E vkind \in {"plain", "option"} : \E f \in [SampleVals(ty) -> SlotVals(vkind)] :
          Constructed("from_fn", f, from_fn(ty, vkind, f))

MapTryFromFn ==
    /\ op = "none"
    /\ \E vkind \in {"plain", "option"} :
       \E f \in [SampleVals(ty) -> {Ok(x) : x \in SlotVals(vkind)} \cup Errors] :
          Constructed("try_from_fn", f, try_from_fn(ty, vkind, f))

MapFromUsizeFn ==
    /\ op = "none"
    /\ \E vkind \in {"plain", "option"} : \E f \in [0..INHABITANTS(ty) -> SlotVals(vkind)] :
          Constructed("from_usize_fn", f, from_usize_fn(ty, vkind, f))

MapTryFrom ==
    /\ op = "none"
    /\ \E vkind \in {"plain", "option"} :
       \E value \in SeqsOf(SlotVals(vkind), 0..(INHABITANTS(ty) + 1)) :
          \/ Constructed("try_from_box", value, returned(try_from_box(ty, vkind, value), NoCalls))
          \/ Constructed("try_from_vec", value, returned(try_from_vec(ty, vkind, value), NoCalls))
          \/ Constructed("try_from_array", value, returned(try_from_array(ty, vkind, value), NoCalls))

MapTryFromHashMap ==
    /\ op = "none"
    /\ \E vkind \in {"plain", "option"} : \E value \in HashMaps(ty, vkind) :
          Constructed("try_from_hash_map", value, try_from_hash_map(ty, vkind, value))

MapDefault ==
    /\ op = "none"
    /\ \E vkind \in {"plain", "option"} :
          Constructed("default", <<>>, default(ty, vkind))

MapNewUninit ==
    /\ op = "none"
    /\ Constructed("new_uninit", <<>>, new_uninit(ty))

MapIndexAssign ==
    /\ map.state = "live"
    /\ \E k \in SampleVals(ty) : \E x \in SlotVals(map.vkind) :
          Operated("index_assign", <<k, x>>, index_assign(ty, map, k, x))

MapReplace ==
    /\ map.state = "live"
    /\ \E k \in SampleVals(ty) : \E x \in SlotVals(map.vkind) :
          Operated("replace", <<k, x>>, replace(ty, map, k, x))

MapSwap ==
    /\ map.state = "live"
    /\ \E k1 \in SampleVals(ty) : \E k2 \in SampleVals(ty) :
          Operated("swap", <<k1, k2>>, swap(ty, map, k1, k2))

MapTake ==
    /\ map.state = "live"
    /\ map.vkind \in {"plain", "option"}
    /\ \E k \in SampleVals(ty) : Operated("take", k, take(ty, map, k))

MapMapValues ==
    /\ map.state = "live"
    /\ \E vkind \in {"plain", "option"} :
       \E f \in Closures(SlotVals(map.vkind), SlotVals(vkind)) :
          Converted("map_values", f, map_values(map, vkind, f))

MapTryUnwrapValues ==
    /\ map.state = "live"
    /\ map.vkind = "option"
    /\ Converted("try_unwrap_values", <<>>, returned(try_unwrap_values(ty, map), NoCalls))

MapAssumeInit ==
    /\ map.state = "live"
    /\ map.vkind = "uninit"
    /\ \E garbage \in [1..Len(map.array) -> PlainVals] :
          Operated("assume_init", <<>>, [map |-> assume_init(map, garbage), ret |-> Ok(<<>>)])

MapLen ==
    /\ map.state = "live"
    /\ Operated("len", <<>>, [map |-> map, ret |-> Ok(len(ty, map))])

MapIsEmpty ==
    /\ map.state = "live"
    /\ Operated("is_empty", <<>>, [map |-> map, ret |-> Ok(is_empty(ty, map))])

MapIntoBox ==
    /\ map.state = "live"
    /\ Operated("into_box", <<>>, [map |-> Consumed, ret |-> Ok(into_box(map))])

MapValues ==
    /\ map.state = "live"
    /\ Operated("values", <<>>, [map |-> map, ret |-> Ok(values(map))])

MapIntoValues ==
    /\ map.state = "live"
    /\ Operated("into_values", <<>>, [map |-> Consumed, ret |-> Ok(into_values(map))])

MapIter ==
    /\ map.state = "live"
    /\ Operated("iter", <<>>, [map |-> map, ret |-> iter(ty, map)])

MapIterMut ==
    /\ map.state = "live"
    /\ Operated("iter_mut", <<>>, [map |-> map, ret |-> iter_mut(ty, map)])

MapIntoIter ==
    /\ map.state = "live"
    /\ Operated("into_iter", <<>>, [map |-> Consumed, ret |-> into_iter(ty, map)])

MapNext ==
    \/ MapFromFn
    \/ MapTryFromFn
    \/ MapFromUsizeFn
    \/ MapTryFrom
    \/ MapTryFromHashMap
    \/ MapDefault
    \/ MapNewUninit
    \/ MapIndexAssign
    \/ MapReplace
    \/ MapSwap
    \/ MapTake
    \/ MapMapValues
    \/ MapTryUnwrapValues
    \/ MapAssumeInit
    \/ MapLen
    \/ MapIsEmpty
    \/ MapIntoBox
    \/ MapValues
    \/ MapIntoValues
    \/ MapIter
    \/ MapIterMut
    \/ MapIntoIter

SpecMap == MapInit /\ [][MapNext]_vars

---------------------------------------------------------------------------
(* The shape of the map *)

\* C10: in every reachable state of an ExhaustiveMap - after any constructor and
\* any sequence of index writes, replace, swap, take, map_values,
\* try_unwrap_values and assume_init - the backing array has exactly
\* cardinality(K) elements, len() is cardinality(K), and is_empty() is true
\* exactly when cardinality(K) is 0.
C10_ArrayLength ==
    map.state = "live" =>
        /\ Len(map.array) = INHABITANTS(ty)
        /\ len(ty, map) = Len(map.array)
        /\ is_empty(ty, map) <=> map.array = <<>>
        /\ op = "len" => result = Ok(Len(map.array))
        /\ op = "is_empty" => result = Ok(INHABITANTS(ty) = 0)

\* a map over the three keys of Option<bool> after a try_unwrap_values that
\* followed other operations
C10_Witness ==
    /\ map.state = "live"
    /\ ty = Option(Bool)
    /\ op = "try_unwrap_values"
    /\ result.tag = "Ok"
    /\ Len(map.array) = 3

---------------------------------------------------------------------------
(* The constructors of the map *)

\* the keys of T in enumeration order: from_usize(0), from_usize(1), ...
Keys(T) == [p \in 1..INHABITANTS(T) |-> from_usize(T, p - 1).val]

\* map[k] of the map self
Get(T, self, k) == self.array[index(T, self, k).val]

\* xs holds x exactly once
Once(xs, x) == Cardinality({p \in DOMAIN xs : xs[p] = x}) = 1

\* the closure of the crate's example: false to 2, true to 3
F23 == [k \in SampleVals(Bool) |-> IF k = BoolVal(FALSE) THEN [v |-> 2] ELSE [v |-> 3]]

\* C11: from_fn(f) calls f exactly once per key, in enumeration order, and the
\* map it returns has map[k] = f(k) for every key k; for bool with f(false) = 2
\* and f(true) = 3 the map has length 2, map[false] = 2 and map[true] = 3.
C11_FromFn ==
    /\ op = "from_fn" =>
          /\ result.tag = "Ok"
          /\ result.val = map
          /\ calls = Keys(ty)
          /\ \A k \in SampleVals(ty) : Once(calls, k) /\ Get(ty, map, k) = arg[k]
    /\ from_fn(Bool, "plain", F23).tag = "Ok"
    /\ Len(from_fn(Bool, "plain", F23).val.array) = 2
    /\ Get(Bool, from_fn(Bool, "plain", F23).val, BoolVal(FALSE)) = [v |-> 2]
    /\ Get(Bool, from_fn(Bool, "plain", F23).val, BoolVal(TRUE)) = [v |-> 3]

\* from_fn over the three keys of Option<bool> with a closure that tells
\* None from the others
C11_Witness ==
    /\ op = "from_fn"
    /\ ty = Option(Bool)
    /\ Len(calls) = 3
    /\ map.array = <<[v |-> 1], [v |-> 0], [v |-> 0]>>
    /\ arg[EnumVal(1, <<>>)] = [v |-> 1]

\* the closure |k| g(k.to_usize()) on the keys of T
ComposeToUsize(T, g) == [k \in SampleVals(T) |-> g[to_usize(T, k).val]]

\* C12: from_usize_fn(g) calls g on 0, 1, ..., cardinality(K) - 1 in increasing
\* order and returns a map with map[k] = g(k.to_usize()) for every key k: the
\* map that from_fn(|k| g(k.to_usize())) returns.
C12_FromUsizeFn ==
    op = "from_usize_fn" =>
        /\ result = Ok(map)
        /\ calls = [p \in 1..INHABITANTS(ty) |-> p - 1]
        /\ \A k \in SampleVals(ty) : Get(ty, map, k) = arg[to_usize(ty, k).val]
        /\ from_fn(ty, map.vkind, ComposeToUsize(ty, arg)).tag = "Ok"
        /\ from_fn(ty, map.vkind, ComposeToUsize(ty, arg)).val = map

\* from_usize_fn over the three keys of Color with g(0) = 1, g(1) = 0, g(2) = 1
C12_Witness ==
    /\ op = "from_usize_fn"
    /\ ty = Color
    /\ calls = <<0, 1, 2>>
    /\ map.array = <<[v |-> 1], [v |-> 0], [v |-> 1]>>
    /\ Get(ty, map, EnumVal(2, <<>>)) = [v |-> 0]

\* the positions in the enumeration of T of the keys for which f returns Err
Failing(T, f) == {p \in 1..INHABITANTS(T) : f[Keys(T)[p]].tag = "Err"}

\* the least element of the non-empty set S of numbers
Least(S) == CHOOSE p \in S : \A q \in S : p <= q

\* C13: try_from_fn(f) returns Ok(map) with map[k] = v_k exactly when f returns
\* Ok(v_k) for every key; otherwise it returns the Err of the first failing key
\* in enumeration order, f is called for no key after that one, and no map is
\* returned.
C13_TryFromFn ==
    op = "try_from_fn" =>
        IF Failing(ty, arg) = {}
        THEN /\ result = Ok(map)
             /\ map.state = "live"
             /\ calls = Keys(ty)
             /\ \A k \in SampleVals(ty) : Get(ty, map, k) = arg[k].val
        ELSE /\ result = arg[Keys(ty)[Least(Failing(ty, arg))]]
             /\ result.tag = "Err"
             /\ calls = SubSeq(Keys(ty), 1, Least(Failing(ty, arg)))
             /\ map = NoMap

\* try_from_fn over Color with f(Red) = Ok, f(Green) = Err(1), f(Blue) = Err(0)
C13_Witness ==
    /\ op = "try_from_fn"
    /\ ty = Color
    /\ arg[EnumVal(1, <<>>)].tag = "Ok"
    /\ arg[EnumVal(3, <<>>)] = Err([e |-> 0])
    /\ result = Err([e |-> 1])
    /\ calls = <<EnumVal(1, <<>>), EnumVal(2, <<>>)>>
    /\ map = NoMap

---------------------------------------------------------------------------
(* The operations on the slots of the map *)

\* the maps before and after over T agree on every key except those in ks
SameExcept(T, before, after, ks) ==
    /\ after.state = before.state
    /\ after.vkind = before.vkind
    /\ Len(after.array) = Len(before.array)
    /\ \A j \in SampleVals(T) \ ks : Get(T, after, j) = Get(T, before, j)

\* the step is a replace(k, v): it returns the old map[k] and stores v there
ReplaceStep ==
    op' = "replace" =>
        /\ result' = Ok(Get(ty, map, arg'[1]))
        /\ Get(ty, map', arg'[1]) = arg'[2]
        /\ SameExcept(ty, map, map', {arg'[1]})

\* the step is a take(k): a replace(k, V::default())
TakeStep ==
    op' = "take" =>
        /\ result' = Ok(Get(ty, map, arg'))
        /\ Get(ty, map', arg') = default_value(map.vkind)
        /\ SameExcept(ty, map, map', {arg'})
        /\ map' = replace(ty, map, arg', default_value(map.vkind)).map
        /\ result' = replace(ty, map, arg', default_value(map.vkind)).ret

\* the step is an indexed write map[k] = v
IndexAssignStep ==
    op' = "index_assign" =>
        /\ result'.tag = "Ok"
        /\ Get(ty, map', arg'[1]) = arg'[2]
        /\ SameExcept(ty, map, map', {arg'[1]})

\* C14: replace(k, v) returns the value previously stored for k, afterwards
\* map[k] = v, and the value of every other key is unchanged; take(k) behaves as
\* replace(k, V::default()); an indexed write map[k] = v changes only slot k.
C14_OneSlotChanges == [][ReplaceStep /\ TakeStep /\ IndexAssignStep]_vars

\* a replace of the second of three slots that returned the old value 0 and
\* stored 1, the other slots holding 0 and 1
C14_Witness ==
    /\ op = "replace"
    /\ ty = Color
    /\ arg = <<EnumVal(2, <<>>), [v |-> 1]>>
    /\ result = Ok([v |-> 0])
    /\ map.array = <<[v |-> 0], [v |-> 1], [v |-> 1]>>

\* the step is a swap(k1, k2)
SwapStep ==
    op' = "swap" =>
        /\ result'.tag = "Ok"
        /\ Get(ty, map', arg'[1]) = Get(ty, map, arg'[2])
        /\ Get(ty, map', arg'[2]) = Get(ty, map, arg'[1])
        /\ SameExcept(ty, map, map', {arg'[1], arg'[2]})
        /\ arg'[1] = arg'[2] => map' = map
        /\ swap(ty, map', arg'[1], arg'[2]).map = map

\* the bool map {false: 2, true: 3} after swap(false, true)
Swapped23 == swap(Bool, from_fn(Bool, "plain", F23).val, BoolVal(FALSE), BoolVal(TRUE)).map

\* C15: swap(k1, k2) leaves map[k1] equal to the old map[k2] and map[k2] equal to
\* the old map[k1], changes no other key's value, is a no-op when k1 = k2, and
\* applied twice restores the original map; for the bool map {false: 2, true: 3},
\* swap(false, true) gives map[false] = 3 and map[true] = 2.
C15_Swap ==
    [][/\ SwapStep
       /\ Get(Bool, Swapped23, BoolVal(FALSE)) = [v |-> 3]
       /\ Get(Bool, Swapped23, BoolVal(TRUE)) = [v |-> 2]]_vars

\* a swap of the first and the last of three slots that held 0 and 1
C15_Witness ==
    /\ op = "swap"
    /\ ty = Color
    /\ arg = <<EnumVal(1, <<>>), EnumVal(3, <<>>)>>
    /\ result.tag = "Ok"
    /\ map.array = <<[v |-> 1], [v |-> 1], [v |-> 0]>>

\* the step is a map_values(f)
MapValuesStep ==
    op' = "map_values" =>
        /\ result' = Ok(map')
        /\ map'.state = "live"
        /\ Len(map'.array) = Len(map.array)
        /\ \A k \in SampleVals(ty) : Get(ty, map', k) = arg'[Get(ty, map, k)]
        /\ calls' = map.array

\* C16: map_values(f) returns a map over the same key type with new[k] = f(old[k])
\* for every key k and the same length, and calls f exactly once per slot, in
\* increasing index order.
C16_MapValues == [][MapValuesStep]_vars

\* a map_values over three slots holding 0, 1, 1 with a closure from the values
\* to options that sends 0 to None and 1 to Some(1)
C16_Witness ==
    /\ op = "map_values"
    /\ ty = Color
    /\ calls = <<[v |-> 0], [v |-> 1], [v |-> 1]>>
    /\ map.vkind = "option"
    /\ map.array = <<NoneVal, SomeVal(1), SomeVal(1)>>

---------------------------------------------------------------------------
(* The conversions of the map *)

\* the map of the crate's test_conversion: [2, 3].try_into()
From23 == try_from_array(Bool, "plain", <<[v |-> 2], [v |-> 3]>>)

\* C17: TryFrom of a sequence (Box<[V]>, Vec<V>, [V; N]) succeeds exactly when
\* the length of the sequence is cardinality(K); on success map[from_usize(p)] is
\* seq[p] for every position p, and converting back to Box<[V]> returns the same
\* sequence; on failure the Err holds the input sequence, contents and length as
\* they were.  [2, 3] gives map[false] = 2 and map[true] = 3.
C17_TryFromSequence ==
    /\ op \in {"try_from_box", "try_from_vec", "try_from_array"} =>
          IF Len(arg) = INHABITANTS(ty)
          THEN /\ result = Ok(map)
               /\ map.state = "live"
               /\ \A p \in 1..INHABITANTS(ty) : Get(ty, map, Keys(ty)[p]) = arg[p]
               /\ into_box(map) = arg
          ELSE /\ result = Err(arg)
               /\ map = NoMap
    /\ From23.tag = "Ok"
    /\ Get(Bool, From23.val, BoolVal(FALSE)) = [v |-> 2]
    /\ Get(Bool, From23.val, BoolVal(TRUE)) = [v |-> 3]

\* a three-element array offered as a map over bool: rejected and returned
C17_Witness ==
    /\ op = "try_from_array"
    /\ ty = Bool
    /\ arg = <<[v |-> 0], [v |-> 1], [v |-> 1]>>
    /\ result = Err(arg)
    /\ map = NoMap

\* the positions in the enumeration of T of the keys that the hash map h lacks
Missing(T, h) == {p \in 1..INHABITANTS(T) : Keys(T)[p] \notin DOMAIN h}

\* C18: TryFrom<HashMap<K, V>> succeeds exactly when the hash map contains every
\* key of K, and then map[k] is the hash map's value for k; otherwise it returns
\* Err(k0), k0 being the missing key with the smallest index.
C18_TryFromHashMap ==
    op = "try_from_hash_map" =>
        IF Missing(ty, arg) = {}
        THEN /\ result = Ok(map)
             /\ map.state = "live"
             /\ \A k \in SampleVals(ty) : Get(ty, map, k) = arg[k]
        ELSE /\ result = Err(Keys(ty)[Least(Missing(ty, arg))])
             /\ to_usize(ty, result.val) = Ok(Least(Missing(ty, arg)) - 1)
             /\ \A k \in SampleVals(ty) \ DOMAIN arg :
                    to_usize(ty, result.val).val <= to_usize(ty, k).val
             /\ map = NoMap

\* a hash map that holds only Red, offered as a map over Color: Green and Blue
\* are missing and Green is reported
C18_Witness ==
    /\ op = "try_from_hash_map"
    /\ ty = Color
    /\ DOMAIN arg = {EnumVal(1, <<>>)}
    /\ result = Err(EnumVal(2, <<>>))
    /\ map = NoMap

\* the step is a try_unwrap_values
TryUnwrapValuesStep ==
    op' = "try_unwrap_values" =>
        IF \E p \in DOMAIN map.array : map.array[p] = NoneVal
        THEN /\ result' = Err(map)
             /\ map' = map
        ELSE /\ result' = Ok(map')
             /\ map'.state = "live"
             /\ map'.vkind = "plain"
             /\ Len(map'.array) = Len(map.array)
             /\ \A k \in SampleVals(ty) : Get(ty, map', k) = [v |-> Get(ty, map, k).some]

\* C19: try_unwrap_values on a map of options returns Err(m), m being the input
\* map with every slot unchanged, exactly when at least one slot is None;
\* otherwise it returns Ok(map) where map[k] is the unwrapped value of the
\* input's slot k for every key k.
C19_TryUnwrapValues == [][TryUnwrapValuesStep]_vars

\* a try_unwrap_values of the bool map {false: Some(1), true: None}: Err of the
\* map as it was
C19_Witness ==
    /\ op = "try_unwrap_values"
    /\ ty = Bool
    /\ map.array = <<SomeVal(1), NoneVal>>
    /\ result = Err(map)

---------------------------------------------------------------------------
(* The map of not yet initialized slots *)

\* the state after new_uninit: cardinality(K) slots, none written
NewUninitState ==
    op = "new_uninit" =>
        /\ result = Ok(map)
        /\ map.state = "live"
        /\ map.vkind = "uninit"
        /\ Len(map.array) = INHABITANTS(ty)
        /\ \A p \in DOMAIN map.array : map.array[p] = Uninit

\* assume_init can be called on any map of MaybeUninit slots, written or not
AssumeInitUnchecked == (map.state = "live" /\ map.vkind = "uninit") => ENABLED MapAssumeInit

\* the step is a write map[k] = v to a map of MaybeUninit slots
UninitWriteStep ==
    (op' = "index_assign" /\ map.vkind = "uninit") =>
        /\ Get(ty, map', arg'[1]) = arg'[2]
        /\ SameExcept(ty, map, map', {arg'[1]})

\* the step is an assume_init: the written slots keep their values
AssumeInitStep ==
    op' = "assume_init" =>
        /\ result'.tag = "Ok"
        /\ map'.state = "live"
        /\ map'.vkind = "plain"
        /\ Len(map'.array) = Len(map.array)
        /\ \A k \in SampleVals(ty) :
               Get(ty, map, k) # Uninit => Get(ty, map', k) = Get(ty, map, k)
        /\ (\A p \in DOMAIN map.array : map.array[p] # Uninit) => map'.array = map.array

\* C20: new_uninit() yields a store of exactly cardinality(K) slots, none
\* written; a write by key stores its value in that key's slot and leaves the
\* others, so once every key has been written each slot holds the last value
\* written for its key, and assume_init() then yields the map with exactly those
\* values.  assume_init changes no written slot and checks nothing: it can be
\* called whether or not every slot was written.
C20_UninitThenAssumeInit ==
    /\ [](NewUninitState /\ AssumeInitUnchecked)
    /\ [][UninitWriteStep /\ AssumeInitStep]_vars

\* an assume_init of a map over Color: the slots hold 1, 0, 1
C20_Witness ==
    /\ op = "assume_init"
    /\ ty = Color
    /\ map.vkind = "plain"
    /\ map.array = <<[v |-> 1], [v |-> 0], [v |-> 1]>>

---------------------------------------------------------------------------
(* The bounded ranges *)

\* the types InRange<A, B> and InRangeInclusive<A, B>
IsRange(T) == T.kind \in {"in_range", "in_range_inclusive"}

\* i lies in the range that T stands for
Contains(T, i) == IF T.kind = "in_range" THEN T.A <= i /\ i < T.B ELSE T.A <= i /\ i <= T.B

\* C21: for InRange<A, B> (InRangeInclusive<A, B>) and every usize i, those near
\* usize::MAX included, new(i) returns Some(v) with v.get() = i exactly when
\* A <= i < B (A <= i <= B), and None otherwise; the cardinality is B - A
\* (B - A + 1) and to_usize of a value is the value minus A.
C21_InRangeNew ==
    IsRange(ty) =>
        /\ INHABITANTS(ty) = IF ty.kind = "in_range" THEN ty.B - ty.A ELSE ty.B - ty.A + 1
        /\ op = "new" =>
              IF Contains(ty, arg) THEN result.tag = "Some" /\ get(result.val) = arg
              ELSE result = None
        /\ op = "to_usize" => result = Ok(get(arg) - ty.A)

\* new(usize::MAX) of InRangeInclusive<1, usize::MAX>: the last value
C21_Witness ==
    /\ op = "new"
    /\ ty = InRangeInclusive(1, USIZE_MAX)
    /\ arg = USIZE_MAX
    /\ result = Some(IntVal(USIZE_MAX))

---------------------------------------------------------------------------
(* The index stays below the cardinality *)

Larger(a, b) == IF a < b THEN b ELSE a

RECURSIVE StepsPeak(_, _, _, _, _)
\* the largest accumulator value, in exact arithmetic, of the product encoding of
\* fields with cardinalities ns and indices ixs, walked from field k down to the
\* first with accumulator res; pk is the largest value seen so far
StepsPeak(ns, ixs, k, res, pk) ==
    IF k = 0 THEN pk
    ELSE StepsPeak(ns, ixs, k - 1, res * ns[k] + ixs[k], Larger(pk, res * ns[k] + ixs[k]))

RECURSIVE Peak(_, _)
\* the largest value computed while the fields xs of types ts are encoded: inside
\* each field, and by the accumulator over them
FieldsPeak(ts, xs) ==
    Larger(StepsPeak([k \in DOMAIN ts |-> INHABITANTS(ts[k])],
                     [k \in DOMAIN ts |-> to_usize(ts[k], xs[k]).val], Len(ts), 0, 0),
           IF ts = <<>> THEN 0
           ELSE CHOOSE m \in {Peak(ts[k], xs[k]) : k \in DOMAIN ts} :
                    \A k \in DOMAIN ts : Peak(ts[k], xs[k]) <= m)

\* the largest value computed, in exact arithmetic, while v of type T is encoded
Peak(T, v) ==
    CASE T.kind \in {"tuple", "struct"} -> FieldsPeak(T.fields, v.t)
      [] T.kind = "array" -> FieldsPeak([k \in 1..T.len |-> T.elem], v.t)
      [] T.kind = "enum" ->
            Larger(FieldsPeak(T.variants[v.variant], v.fields),
                   variant_offset(T, v.variant)
                       + fields_to_usize(T.variants[v.variant], v.fields).val)
      [] T.kind = "deref" -> Peak(T.inner, v.inner)
      [] OTHER -> to_usize(T, v).val

\* a map over T with every slot 0
ZeroMap(T) == Live("plain", [p \in 1..INHABITANTS(T) |-> [v |-> 0]])

\* C22: for every implemented type K and every value k, k.to_usize() is below
\* cardinality(K), and no accumulator value computed while a product is encoded
\* or a sum offset is added exceeds cardinality(K) - 1, so none overflows usize;
\* hence map[k], replace, swap and take never index the array out of bounds.
C22_IndexBelowCardinality ==
    op = "to_usize" =>
        /\ result.tag = "Ok"
        /\ result.val < INHABITANTS(ty)
        /\ Peak(ty, arg) <= INHABITANTS(ty) - 1
        /\ INHABITANTS(ty) <= MaxIter =>
              /\ index(ty, ZeroMap(ty), arg) = Ok(result.val + 1)
              /\ replace(ty, ZeroMap(ty), arg, [v |-> 1]).ret.tag = "Ok"
              /\ take(ty, ZeroMap(ty), arg).ret.tag = "Ok"
              /\ \A k2 \in SampleVals(ty) : swap(ty, ZeroMap(ty), arg, k2).ret.tag = "Ok"

\* the last value of a struct with usize::MAX inhabitants, encoded in a build that
\* panics on overflow
C22_Witness ==
    /\ op = "to_usize"
    /\ ty = Big
    /\ overflow_checks
    /\ arg = ProductVal(<<IntVal(USIZE_MAX)>>)
    /\ result = Ok(USIZE_MAX - 1)

---------------------------------------------------------------------------
(* Product encoding and decoding, sum decoding *)

\* the types encoded as a product of fields
IsProduct(T) == T.kind \in {"tuple", "struct", "array", "enum"}

\* the types of the fields of the product value v of type T
FieldTypes(T, v) ==
    CASE T.kind = "array" -> [k \in 1..T.len |-> T.elem]
      [] T.kind = "enum" -> T.variants[v.variant]
      [] OTHER -> T.fields

\* the field values of the product value v of type T
FieldValues(T, v) == IF T.kind = "enum" THEN v.fields ELSE v.t

\* what to_usize adds to the product index: the start of the variant's range
Offset(T, v) == IF T.kind = "enum" THEN RangeStart(T, v.variant) ELSE 0

RECURSIVE LastToFirst(_, _, _, _)
\* the accumulator after the fields k, k - 1, ..., 1 in that order, each step
\* being acc * n_field + index(field value)
LastToFirst(ns, ixs, k, acc) ==
    IF k = 0 THEN acc ELSE LastToFirst(ns, ixs, k - 1, acc * ns[k] + ixs[k])

\* the sum over the fields j of index(f_j) times the product of the cardinalities
\* of the fields declared before f_j
Weighted(ns, ixs) == Sum([j \in 1..Len(ns) |-> ixs[j] * Product(SubSeq(ns, 1, j - 1))])

\* C23: product encoding (tuples, arrays, derived structs and enum variants)
\* starts the accumulator at 0 and, for each field from the last declared to the
\* first, sets accumulator = accumulator * n_field + index(field value); the
\* result is the sum over the fields j of index(f_j) times the product of the
\* cardinalities of the fields declared before f_j.
C23_ProductEncoding ==
    (op = "to_usize" /\ IsProduct(ty)) =>
        /\ result.tag = "Ok"
        /\ result.val - Offset(ty, arg) =
              LastToFirst(FieldCards(FieldTypes(ty, arg)),
                          FieldIdx(FieldTypes(ty, arg), FieldValues(ty, arg)),
                          Len(FieldTypes(ty, arg)), 0)
        /\ result.val - Offset(ty, arg) =
              Weighted(FieldCards(FieldTypes(ty, arg)),
                       FieldIdx(FieldTypes(ty, arg), FieldValues(ty, arg)))

\* the struct {bool, u8, Option<bool>} with the fields true, 255, Some(true):
\* 1 + 2 * 255 + 512 * 2
C23_Witness ==
    /\ op = "to_usize"
    /\ ty = NamedStruct
    /\ arg = ProductVal(<<BoolVal(TRUE), IntVal(255), EnumVal(2, <<BoolVal(TRUE)>>)>>)
    /\ result = Ok(1535)

RECURSIVE DecodeFirstToLast(_, _)
\* the fields of types ts decoded from i, from the first declared to the last:
\* field value = unindex(i mod n_field), then i = i / n_field
DecodeFirstToLast(ts, i) ==
    IF ts = <<>> THEN <<>>
    ELSE <<from_usize(Head(ts), i % INHABITANTS(Head(ts))).val>>
             \o DecodeFirstToLast(Tail(ts), i \div INHABITANTS(Head(ts)))

RECURSIVE DecodeLastToFirst(_, _)
\* the same from the last declared field to the first, the decoded fields put
\* back in declaration order
DecodeLastToFirst(ts, i) ==
    IF ts = <<>> THEN <<>>
    ELSE DecodeLastToFirst(SubSeq(ts, 1, Len(ts) - 1), i \div INHABITANTS(ts[Len(ts)]))
             \o <<from_usize(ts[Len(ts)], i % INHABITANTS(ts[Len(ts)])).val>>

\* a from_usize of a product type on an index below its cardinality
DecodedProduct == op = "from_usize" /\ IsProduct(ty) /\ arg < INHABITANTS(ty)

\* C24, as amended: product decoding of an index i takes the fields from the
\* FIRST declared to the LAST, setting field value = unindex(i mod n_field) and
\* then i = i / n_field for each; the value so obtained is the inverse of product
\* encoding.
C24_DecodeFirstToLast ==
    DecodedProduct =>
        /\ result.tag = "Some"
        /\ FieldValues(ty, result.val) =
              DecodeFirstToLast(FieldTypes(ty, result.val), arg - Offset(ty, result.val))
        /\ to_usize(ty, result.val) = Ok(arg)

\* index 1 of (u8, bool) decodes to (1, false): the first field takes 1 mod 256
C24_Witness ==
    /\ op = "from_usize"
    /\ ty = U8Bool
    /\ arg = 1
    /\ result = Some(ProductVal(<<IntVal(1), BoolVal(FALSE)>>))

\* C24, as stated: product decoding takes the fields from the last declared to
\* the first, field value = unindex(i mod n_field), i = i / n_field, and puts
\* them back in declaration order; the value is the inverse of product encoding.
C24_DecodeLastToFirst ==
    DecodedProduct =>
        /\ result.tag = "Some"
        /\ FieldValues(ty, result.val) =
              DecodeLastToFirst(FieldTypes(ty, result.val), arg - Offset(ty, result.val))
        /\ to_usize(ty, result.val) = Ok(arg)

\* the variants of T whose index range holds i
VariantsAt(T, i) ==
    {j \in 1..Len(T.variants) :
        RangeStart(T, j) <= i /\ i < RangeStart(T, j) + VariantCard(T, j)}

\* C25: sum decoding of an index i below the cardinality scans the variants in
\* declaration order, subtracting each skipped variant's cardinality, and
\* returns a value of the one variant vj with n1+..+n(j-1) <= i < n1+..+nj,
\* decoded from the remaining index; variants of cardinality 0 are skipped, the
\* subtraction never underflows and the trailing unreachable!() is not reached.
C25_SumDecoding ==
    (op = "from_usize" /\ ty.kind = "enum" /\ arg < INHABITANTS(ty)) =>
        /\ result.tag = "Some"
        /\ VariantsAt(ty, arg) = {result.val.variant}
        /\ VariantCard(ty, result.val.variant) > 0
        /\ RangeStart(ty, result.val.variant) <= arg
        /\ variant_from_usize(ty, result.val.variant,
                              arg - RangeStart(ty, result.val.variant)) = result
        /\ result.val.fields =
              DecodeFirstToLast(ty.variants[result.val.variant],
                                arg - RangeStart(ty, result.val.variant))

\* index 2 of an enum whose variants have 2, 0, 0, 1 and 4 values: the scan
\* skips the first variant and the two empty ones and returns the fourth
C25_Witness ==
    /\ op = "from_usize"
    /\ ty = VoidEnum
    /\ arg = 2
    /\ result = Some(EnumVal(4, <<>>))

---------------------------------------------------------------------------
(* The cardinalities of arrays, ranges, non-zero integers and char *)

RECURSIVE Power(_, _)
\* b^e with 0^0 = 1, as far as it does not exceed usize::MAX + 1
Power(b, e) ==
    IF e = 0 THEN 1
    ELSE IF b = 0 THEN 0
    ELSE IF Power(b, e - 1) > USIZE_MAX \div b THEN USIZE_MAX + 1
    ELSE b * Power(b, e - 1)

C27_RangeFromUsizeChecksFirst ==
    (op = "from_usize" /\ IsRange(ty)) =>
        /\ result.tag # "Panic"
        /\ arg < INHABITANTS(ty) => result = Some(IntVal(ty.A + arg))
        /\ arg >= INHABITANTS(ty) => result = None

\* from_usize(usize::MAX) of InRange<1, 3> in a build with overflow checks: the
\* addition 1 + usize::MAX is performed, and panics
C27_Witness ==
    /\ op = "from_usize"
    /\ ty = InRange(1, 3)
    /\ overflow_checks
    /\ arg = USIZE_MAX
    /\ result = Panic("attempt to add with overflow")


\* the unsigned bit pattern of a w-bit integer n
BitPattern(n, w) == n % Pow(2, w)

IsNonZero(T) == T.kind \in {"unonzero", "inonzero"}

\* n is a value of the non-zero w-bit integer type T
IsNonZeroValue(T, n) ==
    /\ n # 0
    /\ IF T.kind = "unonzero" THEN n >= 1 /\ n <= Pow(2, T.bits) - 1
       ELSE n >= 0 - Pow(2, T.bits - 1) /\ n <= Pow(2, T.bits - 1) - 1

PositionHoldsKey ==
    map.state = "live" =>
        /\ Len(map.array) = INHABITANTS(ty)
        /\ \A p \in 1..INHABITANTS(ty) : index(ty, map, Keys(ty)[p]) = Ok(p)

\* the pairs of the map self in increasing index order
Pairs(T, self) == [p \in 1..INHABITANTS(T) |-> <<Keys(T)[p], self.array[p]>>]

\* the step is an iter(), iter_mut() or into_iter(): it yields one pair per key,
\* the p-th being (from_usize(p), the value at position p), and the pair of a
\* key k carries map[k]
IterStep ==
    op' \in {"iter", "iter_mut", "into_iter"} =>
        /\ result' = Ok(Pairs(ty, map))
        /\ Len(result'.val) = INHABITANTS(ty)
        /\ \A k \in SampleVals(ty) :
              /\ \E p \in DOMAIN result'.val : result'.val[p][1] = k
              /\ \A p \in DOMAIN result'.val :
                    result'.val[p][1] = k => result'.val[p][2] = Get(ty, map, k)
        /\ map' = IF op' = "into_iter" THEN Consumed ELSE map

\* the step is a values() or into_values(): it yields the values of the keys in
\* increasing index order
ValuesStep ==
    op' \in {"values", "into_values"} =>
        /\ result'.tag = "Ok"
        /\ Len(result'.val) = INHABITANTS(ty)
        /\ \A p \in 1..INHABITANTS(ty) : result'.val[p] = Get(ty, map, Keys(ty)[p])
        /\ map' = IF op' = "into_values" THEN Consumed ELSE map

\* C30: in every reachable map state position p of the backing array holds the
\* value of key from_usize(p); iter(), iter_mut() and into_iter() yield exactly
\* INHABITANTS pairs, the p-th being (from_usize(p), value at position p);
\* values() and into_values() yield the values in the same increasing-index
\* order; and the pair yielded for a key k carries the same value as map[k].
C30_IterationOrder ==
    /\ []PositionHoldsKey
    /\ [][IterStep /\ ValuesStep]_vars

\* an into_iter() of a map over the three colours holding 0, 1, 1
C30_Witness ==
    /\ op = "into_iter"
    /\ ty = Color
    /\ map = Consumed
    /\ result = Ok(<< <<EnumVal(1, <<>>), [v |-> 0]>>,
                      <<EnumVal(2, <<>>), [v |-> 1]>>,
                      <<EnumVal(3, <<>>), [v |-> 1]>> >>)

====
